---- MODULE Spec2Model ----
(***************************************************************************)
(* Model of the scheduling backend: the three JSON tables (employees,      *)
(* jobs, schedule), the repositories over them, AssignmentService and the  *)
(* per-file locks of data_service.                                         *)
(*                                                                         *)
(* Datetimes are integers (hours on one time line); an Optional[...] value *)
(* is a sequence of length 0 (None) or 1.                                  *)
(***************************************************************************)
EXTENDS Integers, Sequences, FiniteSets, TLC

VARIABLES
    employees,      \* employees.json : sequence of [id, availability]
    jobs,           \* jobs.json      : sequence of [id, startTime, endTime]
    assignments,    \* schedule.json  : sequence of [id, employeeId, jobId, assignedAt, notes]
    nextId,         \* number of Assignment ids generated so far (uuid4 freshness)
    clock,          \* the value datetime.now() returned last
    last,           \* the last completed service or repository call and the tables it started from
    scenario,       \* progress of the call sequence E1/J1, E1/J2, E1/J1 from the initial state
    threads,        \* concurrent create_assignment calls: per thread its position and locals
    file_locks,     \* data_service._file_locks : path -> Lock object or absent
    lockHolder,     \* Lock object -> thread holding it, or NoThread
    lk,             \* threads of read_json_file / write_json_file: position and locals
    ov,             \* inputs and results of the three datetime overlap predicates
    disk,           \* one table file on disk: absent, or the JSON text written so far
    io,             \* the read_json_file / write_json_file call on that file
    table,          \* the records one repository reads and writes
    rq,             \* the last repository call on that table and what it returned
    mv,             \* a construction of a Job or an Employee: its arguments and its outcome
    jq,             \* a JobService query: the job table, its arguments and what it returned
    en              \* a get_enriched_assignments call: the tables it loaded and its result

vars == <<employees, jobs, assignments, nextId, clock, last, scenario,
          threads, file_locks, lockHolder, lk, ov, disk, io, table, rq,
          mv, jq, en>>

tables    == <<employees, jobs, assignments>>
seqVars   == <<employees, jobs, assignments, nextId, clock, last, scenario>>
concVars  == <<threads>>
lockVars  == <<file_locks, lockHolder, lk>>
queryVars == <<mv, jq, en>>
storeVars == <<disk, io, table, rq, queryVars>>

-----------------------------------------------------------------------------
(* Bounds *)

MaxCreates == 3     \* Assignment ids generated in one run
MaxClock   == 0     \* how far datetime.now() advances beyond its first value
MaxTime    == 4     \* instants 0..MaxTime for the overlap predicates

-----------------------------------------------------------------------------
(* Seeded tables and the ids requests may carry *)

EmployeeIds == {"E1", "E2", "NOPE"}
JobIds      == {"J1", "J2", "J3", "NOPE"}

SeedJobs ==
    << [id |-> "J1", startTime |-> 8,  endTime |-> 16],
       [id |-> "J2", startTime |-> 15, endTime |-> 23],
       [id |-> "J3", startTime |-> 0,  endTime |-> 8] >>

SeedEmployees ==
    << [id |-> "E1", availability |-> TRUE],
       [id |-> "E2", availability |-> FALSE] >>

AssignmentId(n) == <<"ASSIGN", n>>

-----------------------------------------------------------------------------
(* Repositories: pure parts *)

\* next((x for x in xs if x.id == id), None)
FirstWithId(xs, id) ==
    LET m == SelectSeq(xs, LAMBDA x : x.id = id)
    IN  IF Len(m) = 0 THEN <<>> ELSE <<m[1]>>

EmployeeRepository_get_by_id(emps, employee_id) == FirstWithId(emps, employee_id)

JobRepository_get_by_id(jbs, job_id) == FirstWithId(jbs, job_id)

AssignmentRepository_get_by_id(asg, assignment_id) == FirstWithId(asg, assignment_id)

\* next((a for a in assignments if a.employeeId == employee_id), None)
AssignmentRepository_get_by_employee_id(asg, employee_id) ==
    LET m == SelectSeq(asg, LAMBDA a : a.employeeId = employee_id)
    IN  IF Len(m) = 0 THEN <<>> ELSE <<m[1]>>

\* a create that puts the new record first
AssignmentRepository_create_Prepend(asg, assignment) == <<assignment>> \o asg

\* assignments.append(assignment); save_all(assignments)
AssignmentRepository_create(asg, assignment) == Append(asg, assignment)

\* a delete that cuts the list at the first record with the id
AssignmentRepository_delete_Truncates(asg, assignment_id) ==
    IF \E i \in 1..Len(asg) : asg[i].id = assignment_id
    THEN LET k == CHOOSE i \in 1..Len(asg) :
                    /\ asg[i].id = assignment_id
                    /\ \A h \in 1..(i-1) : asg[h].id # assignment_id
         IN  SubSeq(asg, 1, k - 1)
    ELSE asg

\* a delete that leaves every record in the list
AssignmentRepository_delete_KeepsAll(asg, assignment_id) == asg

\* [a for a in assignments if a.id != assignment_id]
AssignmentRepository_delete(asg, assignment_id) ==
    SelectSeq(asg, LAMBDA a : a.id # assignment_id)

\* for i, emp in enumerate(employees): if emp.id == employee.id: employees[i] = employee; save; return
EmployeeRepository_update(emps, employee) ==
    IF \E i \in 1..Len(emps) : emps[i].id = employee.id
    THEN LET k == CHOOSE i \in 1..Len(emps) :
                    /\ emps[i].id = employee.id
                    /\ \A h \in 1..(i-1) : emps[h].id # employee.id
         IN  [emps EXCEPT ![k] = employee]
    ELSE emps

\* for i, x in enumerate(xs): if x.id == entity.id: xs[i] = entity; save_all(xs); return
ReplaceFirstWithId(xs, entity) ==
    IF \E i \in 1..Len(xs) : xs[i].id = entity.id
    THEN LET k == CHOOSE i \in 1..Len(xs) :
                    /\ xs[i].id = entity.id
                    /\ \A h \in 1..(i-1) : xs[h].id # entity.id
         IN  [xs EXCEPT ![k] = entity]
    ELSE xs

\* an update that stores the entity when its id is not in the table
AssignmentRepository_update_Upsert(asg, assignment) ==
    IF \E i \in 1..Len(asg) : asg[i].id = assignment.id
    THEN ReplaceFirstWithId(asg, assignment)
    ELSE Append(asg, assignment)

AssignmentRepository_update(asg, assignment) == ReplaceFirstWithId(asg, assignment)

JobRepository_update(jbs, job) == ReplaceFirstWithId(jbs, job)

\* a delete that removes the first record with the id only
EmployeeRepository_delete_FirstOnly(emps, employee_id) ==
    IF \E i \in 1..Len(emps) : emps[i].id = employee_id
    THEN LET k == CHOOSE i \in 1..Len(emps) :
                    /\ emps[i].id = employee_id
                    /\ \A h \in 1..(i-1) : emps[h].id # employee_id
         IN  SubSeq(emps, 1, k - 1) \o SubSeq(emps, k + 1, Len(emps))
    ELSE emps

\* [e for e in employees if e.id != employee_id]
EmployeeRepository_delete(emps, employee_id) ==
    SelectSeq(emps, LAMBDA e : e.id # employee_id)

\* [j for j in jobs if j.id != job_id]
JobRepository_delete(jbs, job_id) ==
    SelectSeq(jbs, LAMBDA j : j.id # job_id)

-----------------------------------------------------------------------------
(* The three datetime overlap predicates *)

AssignmentService_times_overlap(start1, end1, start2, end2) ==
    start1 < end2 /\ start2 < end1

\* Mutant: closed intervals, windows that only touch count as overlapping
Job_overlaps_with_Closed(self, other) ==
    (self.startTime <= other.endTime) /\ (self.endTime >= other.startTime)

Job_overlaps_with(self, other) ==
    (self.startTime < other.endTime) /\ (self.endTime > other.startTime)

TimeValidator_check_overlap(start1, end1, start2, end2) ==
    (start1 < end2) /\ (end1 > start2)

-----------------------------------------------------------------------------
(* AssignmentService._validate_assignment, on the values its reads returned *)

\* Mutant: the availability check (Rule 3) left out
ValidateAssignment_NoAvailability(employee, job, existing_assignment, existing_job, job_id) ==
    IF employee = <<>> THEN "EmployeeNotFound"
    ELSE IF job = <<>> THEN "JobNotFound"
    ELSE IF existing_assignment # <<>> /\ existing_assignment[1].jobId = job_id
         THEN "DoubleBooking"
    ELSE IF /\ existing_assignment # <<>>
            /\ existing_job # <<>>
            /\ AssignmentService_times_overlap(job[1].startTime, job[1].endTime,
                                               existing_job[1].startTime,
                                               existing_job[1].endTime)
         THEN "TimeOverlap"
    ELSE "Ok"

\* Mutant: the overlap check (Rule 2) made before the same-job check (Rule 1)
ValidateAssignment_OverlapFirst(employee, job, existing_assignment, existing_job, job_id) ==
    IF employee = <<>> THEN "EmployeeNotFound"
    ELSE IF job = <<>> THEN "JobNotFound"
    ELSE IF ~employee[1].availability THEN "EmployeeUnavailable"
    ELSE IF /\ existing_assignment # <<>>
            /\ existing_job # <<>>
            /\ AssignmentService_times_overlap(job[1].startTime, job[1].endTime,
                                               existing_job[1].startTime,
                                               existing_job[1].endTime)
         THEN "TimeOverlap"
    ELSE IF existing_assignment # <<>> /\ existing_assignment[1].jobId = job_id
         THEN "DoubleBooking"
    ELSE "Ok"

\* Mutant: no check against the existing assignment at all
ValidateAssignment_NoConflictCheck(employee, job, existing_assignment, existing_job, job_id) ==
    IF employee = <<>> THEN "EmployeeNotFound"
    ELSE IF job = <<>> THEN "JobNotFound"
    ELSE IF ~employee[1].availability THEN "EmployeeUnavailable"
    ELSE "Ok"

ValidateAssignment(employee, job, existing_assignment, existing_job, job_id) ==
    IF employee = <<>> THEN "EmployeeNotFound"
    ELSE IF job = <<>> THEN "JobNotFound"
    ELSE IF ~employee[1].availability THEN "EmployeeUnavailable"
    ELSE IF existing_assignment # <<>> /\ existing_assignment[1].jobId = job_id
         THEN "DoubleBooking"
    ELSE IF /\ existing_assignment # <<>>
            /\ existing_job # <<>>
            /\ AssignmentService_times_overlap(job[1].startTime, job[1].endTime,
                                               existing_job[1].startTime,
                                               existing_job[1].endTime)
         THEN "TimeOverlap"
    ELSE "Ok"

\* existing_job = job_repo.get_by_id(existing_assignment.jobId), read only when
\* an existing assignment was found
ExistingJob(jbs, existing_assignment) ==
    IF existing_assignment = <<>> THEN <<>>
    ELSE JobRepository_get_by_id(jbs, existing_assignment[1].jobId)

\* The whole validation against one state of the three tables
ValidateAgainst(emps, jbs, asg, employee_id, job_id) ==
    LET existing == AssignmentRepository_get_by_employee_id(asg, employee_id)
    IN  ValidateAssignment(EmployeeRepository_get_by_id(emps, employee_id),
                           JobRepository_get_by_id(jbs, job_id),
                           existing,
                           ExistingJob(jbs, existing),
                           job_id)

\* Assignment(employeeId=..., jobId=...): generated id, assignedAt = now,
\* notes = None
NewAssignment(n, employee_id, job_id, now) ==
    [id |-> AssignmentId(n), employeeId |-> employee_id, jobId |-> job_id,
     assignedAt |-> now, notes |-> <<>>]

\* A datetime in a dumped record: its ISO 8601 text
IsoFormat(t) == <<"iso8601", t>>

\* The datetime pydantic builds from an ISO 8601 text
DatetimeFromIso(text) == text[2]

\* a.model_dump(mode="json")
Assignment_model_dump(a) ==
    [id |-> a.id, employeeId |-> a.employeeId, jobId |-> a.jobId,
     assignedAt |-> IsoFormat(a.assignedAt), notes |-> a.notes]

\* Assignment(**item)
Assignment_from_item(item) ==
    [id |-> item.id, employeeId |-> item.employeeId, jobId |-> item.jobId,
     assignedAt |-> DatetimeFromIso(item.assignedAt), notes |-> item.notes]

\* AssignmentRepository.save_all: the list handed to write_json_file
DumpAssignments(asg) == [i \in 1..Len(asg) |-> Assignment_model_dump(asg[i])]

\* AssignmentRepository.get_all: the models built from what read_json_file returned
LoadAssignments(data) == [i \in 1..Len(data) |-> Assignment_from_item(data[i])]

-----------------------------------------------------------------------------
(* Calls run one at a time *)

NoCall == [op |-> "none", employeeId |-> "", jobId |-> "", id |-> <<>>,
           result |-> "", pre |-> <<>>]

Call(op, e, j, id, result) ==
    [op |-> op, employeeId |-> e, jobId |-> j, id |-> id, result |-> result,
     pre |-> tables]

\* How far the calls made so far follow create(E1,J1), create(E1,J2), create(E1,J1)
ScenarioStep(e, j) ==
    IF      scenario = 0 /\ e = "E1" /\ j = "J1" THEN 1
    ELSE IF scenario = 1 /\ e = "E1" /\ j = "J2" THEN 2
    ELSE IF scenario = 2 /\ e = "E1" /\ j = "J1" THEN 3
    ELSE -1

\* Mutant: the new Assignment is persisted before the error is looked at
PersistAlways(error, asg, new_assignment) ==
    AssignmentRepository_create(asg, new_assignment)

\* create_assignment after validation: "if error: return None, error", else
\* the new Assignment is handed to assignment_repo.create
PersistIfValid(error, asg, new_assignment) ==
    IF error # "Ok" THEN asg ELSE AssignmentRepository_create(asg, new_assignment)

\* AssignmentService.create_assignment(employee_id, job_id)
CreateAssignment(e, j) ==
    LET error == ValidateAgainst(employees, jobs, assignments, e, j)
    IN  /\ error = "Ok" => nextId < MaxCreates
        /\ \E now \in {clock, clock + 1} :
            \* datetime.now() is read when the Assignment is constructed
            /\ IF error = "Ok" THEN now <= MaxClock ELSE now = clock
            /\ clock' = now
            /\ assignments' = PersistIfValid(error, assignments,
                                             NewAssignment(nextId, e, j, now))
        /\ nextId' = IF error = "Ok" THEN nextId + 1 ELSE nextId
        /\ last' = Call("create_assignment", e, j,
                        IF error = "Ok" THEN AssignmentId(nextId) ELSE <<>>, error)
        /\ scenario' = ScenarioStep(e, j)
        /\ UNCHANGED <<employees, jobs>>

\* delete_assignment without the lookup: the repository is called and success
\* is returned whatever the id
DeleteAssignment_NoCheck(id) ==
    /\ assignments' = AssignmentRepository_delete(assignments, id)
    /\ last' = Call("delete_assignment", "", "", id, "Ok")
    /\ scenario' = -1
    /\ UNCHANGED <<employees, jobs, nextId, clock>>

\* AssignmentService.get_assignment_by_id(assignment_id)
AssignmentService_get_assignment_by_id(asg, assignment_id) ==
    AssignmentRepository_get_by_id(asg, assignment_id)

\* AssignmentService.delete_assignment(assignment_id)
DeleteAssignment(id) ==
    /\ IF AssignmentRepository_get_by_id(assignments, id) = <<>>
       THEN /\ assignments' = assignments
            /\ last' = Call("delete_assignment", "", "", id, "AssignmentNotFound")
       ELSE /\ assignments' = AssignmentRepository_delete(assignments, id)
            /\ last' = Call("delete_assignment", "", "", id, "Ok")
    /\ scenario' = -1
    /\ UNCHANGED <<employees, jobs, nextId, clock>>

\* EmployeeRepository.update(employee) with the availability set
UpdateEmployee(e, avail) ==
    /\ employees' = EmployeeRepository_update(employees, [id |-> e, availability |-> avail])
    /\ last' = Call("employee_update", e, "", <<>>,
                    IF EmployeeRepository_get_by_id(employees, e) = <<>>
                    THEN "None" ELSE "Ok")
    /\ scenario' = -1
    /\ UNCHANGED <<jobs, assignments, nextId, clock>>

-----------------------------------------------------------------------------
InitTables ==
    /\ employees = SeedEmployees
    /\ jobs = SeedJobs
    /\ assignments = <<>>
    /\ nextId = 0
    /\ clock = 0
    /\ last = NoCall
    /\ scenario = 0

InitThreadsIdle == threads = <<>>

InitLocksIdle ==
    /\ file_locks = <<>>
    /\ lockHolder = <<>>
    /\ lk = <<>>

InitOverlapIdle == ov = <<>>

InitQueryIdle ==
    /\ mv = <<>>
    /\ jq = <<>>
    /\ en = <<>>

InitStoreIdle ==
    /\ disk = <<>>
    /\ io = <<>>
    /\ table = <<>>
    /\ rq = <<>>
    /\ InitQueryIdle

Init == InitTables /\ InitThreadsIdle /\ InitLocksIdle /\ InitOverlapIdle /\ InitStoreIdle

Create == \E e \in EmployeeIds, j \in JobIds : CreateAssignment(e, j)

Delete == \E n \in 0..(MaxCreates - 1) : DeleteAssignment(AssignmentId(n))

Update == \E e \in EmployeeIds, avail \in BOOLEAN : UpdateEmployee(e, avail)

\* Employee and Job tables fixed: only the two AssignmentService calls
NextFixed ==
    \/ Create /\ UNCHANGED <<concVars, lockVars, ov, storeVars>>
    \/ Delete /\ UNCHANGED <<concVars, lockVars, ov, storeVars>>

SpecFixed == Init /\ [][NextFixed]_vars

Next ==
    \/ Create /\ UNCHANGED <<concVars, lockVars, ov, storeVars>>
    \/ Delete /\ UNCHANGED <<concVars, lockVars, ov, storeVars>>
    \/ Update /\ UNCHANGED <<concVars, lockVars, ov, storeVars>>

Spec == Init /\ [][Next]_vars

-----------------------------------------------------------------------------
(* The overlap predicates applied to two windows *)

Instants == 0..MaxTime

Windows == {w \in Instants \X Instants : w[1] < w[2]}

OverlapInput(w1, w2) ==
    [start1 |-> w1[1], end1 |-> w1[2], start2 |-> w2[1], end2 |-> w2[2],
     done |-> FALSE,
     service |-> FALSE, job |-> FALSE, validator |-> FALSE,
     service_swapped |-> FALSE, job_swapped |-> FALSE, validator_swapped |-> FALSE]

JobWindow(start, end) == [id |-> "", startTime |-> start, endTime |-> end]

\* Each predicate on (window 1, window 2) and on (window 2, window 1)
ComputeOverlap ==
    /\ ~ov.done
    /\ ov' = [ov EXCEPT
         !.done = TRUE,
         !.service = AssignmentService_times_overlap(ov.start1, ov.end1, ov.start2, ov.end2),
         !.job = Job_overlaps_with(JobWindow(ov.start1, ov.end1), JobWindow(ov.start2, ov.end2)),
         !.validator = TimeValidator_check_overlap(ov.start1, ov.end1, ov.start2, ov.end2),
         !.service_swapped = AssignmentService_times_overlap(ov.start2, ov.end2, ov.start1, ov.end1),
         !.job_swapped = Job_overlaps_with(JobWindow(ov.start2, ov.end2), JobWindow(ov.start1, ov.end1)),
         !.validator_swapped = TimeValidator_check_overlap(ov.start2, ov.end2, ov.start1, ov.end1)]
    /\ UNCHANGED <<seqVars, concVars, lockVars, storeVars>>

InitOverlap ==
    /\ InitTables /\ InitThreadsIdle /\ InitLocksIdle /\ InitStoreIdle
    /\ \E w1 \in Windows, w2 \in Windows : ov = OverlapInput(w1, w2)

NextOverlap == ComputeOverlap

SpecOverlap == InitOverlap /\ [][NextOverlap]_vars

\* C9: for windows with start < end each of the three predicates is true
\* exactly when start1 < end2 and start2 < end1, that is when the two
\* half-open windows share an instant; it is false when one window ends
\* exactly when the other begins, and swapping the windows does not change it.
C9_OverlapPredicates ==
    ov.done =>
        LET expected == ov.start1 < ov.end2 /\ ov.start2 < ov.end1
            shared   == \E t \in Instants : /\ ov.start1 <= t /\ t < ov.end1
                                            /\ ov.start2 <= t /\ t < ov.end2
            touching == ov.end1 = ov.start2 \/ ov.end2 = ov.start1
        IN  /\ ov.service = expected
            /\ ov.job = expected
            /\ ov.validator = expected
            /\ expected = shared
            /\ touching => (~ov.service /\ ~ov.job /\ ~ov.validator)
            /\ ov.service_swapped = ov.service
            /\ ov.job_swapped = ov.job
            /\ ov.validator_swapped = ov.validator

\* The predicates were applied to a window ending exactly when the other begins
C9_Witness ==
    /\ ov.done
    /\ ov.end1 = ov.start2
    /\ ~ov.service /\ ~ov.job /\ ~ov.validator

-----------------------------------------------------------------------------
(* data_service: _get_lock and the locked sections of read_json_file and     *)
(* write_json_file, one step per point at which the interpreter can switch   *)
(* threads                                                                   *)

LockThreads == {1, 2}

Paths == {"schedule.json", "jobs.json"}

FileOps == {"read_json_file", "write_json_file"}

NoThread == 0

NoLock == <<>>

\* The Lock object thread t creates for a path
LockObject(path, t) == <<path, t>>

LockObjects == {LockObject(p, t) : p \in Paths, t \in LockThreads}

IdleCall == [pc |-> "idle", op |-> "", path |-> "", lock |-> NoLock]

\* read_json_file(file_path) / write_json_file(file_path, data) is entered
EnterFileOp(t, op, path) ==
    /\ lk[t].pc = "idle"
    /\ lk' = [lk EXCEPT ![t] = [pc |-> "get_lock", op |-> op, path |-> path,
                                lock |-> NoLock]]
    /\ UNCHANGED <<file_locks, lockHolder>>

\* _get_lock: if file_path not in _file_locks
GetLockTest(t) ==
    /\ lk[t].pc = "get_lock"
    /\ lk' = [lk EXCEPT ![t].pc = IF file_locks[lk[t].path] = NoLock
                                  THEN "get_lock_store" ELSE "get_lock_return"]
    /\ UNCHANGED <<file_locks, lockHolder>>

\* _get_lock: _file_locks[file_path] = Lock()
GetLockStore(t) ==
    /\ lk[t].pc = "get_lock_store"
    /\ file_locks' = [file_locks EXCEPT ![lk[t].path] = LockObject(lk[t].path, t)]
    /\ lk' = [lk EXCEPT ![t].pc = "get_lock_return"]
    /\ UNCHANGED lockHolder

\* _get_lock: return _file_locks[file_path]
GetLockReturn(t) ==
    /\ lk[t].pc = "get_lock_return"
    /\ lk' = [lk EXCEPT ![t].pc = "acquire", ![t].lock = file_locks[lk[t].path]]
    /\ UNCHANGED <<file_locks, lockHolder>>

\* with lock: (enter) blocks until the Lock object is free
AcquireLock(t) ==
    /\ lk[t].pc = "acquire"
    /\ lockHolder[lk[t].lock] = NoThread
    /\ lockHolder' = [lockHolder EXCEPT ![lk[t].lock] = t]
    /\ lk' = [lk EXCEPT ![t].pc = "locked"]
    /\ UNCHANGED file_locks

\* a locked section left without releasing the Lock object
ReleaseLock_KeepsLock(t) ==
    /\ lk[t].pc = "locked"
    /\ lk' = [lk EXCEPT ![t] = IdleCall]
    /\ UNCHANGED <<file_locks, lockHolder>>

\* with lock: (exit) after the file was read or written, or when the body raised
ReleaseLock(t) ==
    /\ lk[t].pc = "locked"
    /\ lockHolder' = [lockHolder EXCEPT ![lk[t].lock] = NoThread]
    /\ lk' = [lk EXCEPT ![t] = IdleCall]
    /\ UNCHANGED file_locks

InitLock ==
    /\ InitTables /\ InitThreadsIdle /\ InitOverlapIdle /\ InitStoreIdle
    /\ file_locks = [p \in Paths |-> NoLock]
    /\ lockHolder = [l \in LockObjects |-> NoThread]
    /\ lk = [t \in LockThreads |-> IdleCall]

Enter == \E t \in LockThreads, op \in FileOps, p \in Paths : EnterFileOp(t, op, p)

Test == \E t \in LockThreads : GetLockTest(t)

Store == \E t \in LockThreads : GetLockStore(t)

Return == \E t \in LockThreads : GetLockReturn(t)

Acquire == \E t \in LockThreads : AcquireLock(t)

Release == \E t \in LockThreads : ReleaseLock(t)

NextLock ==
    \/ Enter   /\ UNCHANGED <<seqVars, concVars, ov, storeVars>>
    \/ Test    /\ UNCHANGED <<seqVars, concVars, ov, storeVars>>
    \/ Store   /\ UNCHANGED <<seqVars, concVars, ov, storeVars>>
    \/ Return  /\ UNCHANGED <<seqVars, concVars, ov, storeVars>>
    \/ Acquire /\ UNCHANGED <<seqVars, concVars, ov, storeVars>>
    \/ Release /\ UNCHANGED <<seqVars, concVars, ov, storeVars>>

SpecLock == InitLock /\ [][NextLock]_vars

\* C10: at any time at most one thread is inside the locked section of
\* read_json_file or write_json_file for a given table path, in every
\* interleaving, first accesses to the path included.
C10_OneThreadPerTable ==
    \A t1, t2 \in LockThreads :
        (lk[t1].pc = "locked" /\ lk[t2].pc = "locked" /\ lk[t1].path = lk[t2].path)
            => t1 = t2

-----------------------------------------------------------------------------
(* Two create_assignment calls on two worker threads: one step per            *)
(* read_json_file / write_json_file call, each of which holds the table's     *)
(* lock for that call alone                                                   *)

ThreadIds == {1, 2}

IdleThread ==
    [pc |-> "idle", employeeId |-> "", jobId |-> "", employee |-> <<>>,
     job |-> <<>>, existing |-> <<>>, snapshot |-> <<>>, list |-> <<>>,
     new |-> <<>>, result |-> ""]

\* create_assignment(employee_id, job_id) is called
StartCreate(t, e, j) ==
    /\ threads[t].pc = "idle"
    /\ threads' = [threads EXCEPT ![t].pc = "read_employee",
                                  ![t].employeeId = e, ![t].jobId = j]
    /\ UNCHANGED <<assignments, nextId>>

\* employee = self.employee_repo.get_by_id(employee_id); if not employee: return error
ReadEmployee(t) ==
    LET employee == EmployeeRepository_get_by_id(employees, threads[t].employeeId)
        error    == ValidateAssignment(employee, <<>>, <<>>, <<>>, threads[t].jobId)
    IN  /\ threads[t].pc = "read_employee"
        /\ threads' = [threads EXCEPT
                ![t].employee = employee,
                ![t].pc = IF error = "EmployeeNotFound" THEN "done" ELSE "read_job",
                ![t].result = IF error = "EmployeeNotFound" THEN error ELSE ""]
        /\ UNCHANGED <<assignments, nextId>>

\* job = self.job_repo.get_by_id(job_id); if not job: return error;
\* if not employee.availability: return error
ReadJob(t) ==
    LET job   == JobRepository_get_by_id(jobs, threads[t].jobId)
        error == ValidateAssignment(threads[t].employee, job, <<>>, <<>>, threads[t].jobId)
    IN  /\ threads[t].pc = "read_job"
        /\ threads' = [threads EXCEPT
                ![t].job = job,
                ![t].pc = IF error = "Ok" THEN "read_assignments" ELSE "done",
                ![t].result = IF error = "Ok" THEN "" ELSE error]
        /\ UNCHANGED <<assignments, nextId>>

\* existing_assignment = self.assignment_repo.get_by_employee_id(employee_id)
ReadAssignments(t) ==
    LET existing == AssignmentRepository_get_by_employee_id(assignments,
                                                            threads[t].employeeId)
    IN  /\ threads[t].pc = "read_assignments"
        /\ threads' = [threads EXCEPT
                ![t].snapshot = assignments,
                ![t].existing = existing,
                ![t].pc = IF existing = <<>> THEN "create_read" ELSE "read_existing_job"]
        /\ UNCHANGED <<assignments, nextId>>

\* existing_job = self.job_repo.get_by_id(existing_assignment.jobId), Rule 1, Rule 2
ReadExistingJob(t) ==
    LET existing_job == ExistingJob(jobs, threads[t].existing)
        error == ValidateAssignment(threads[t].employee, threads[t].job,
                                    threads[t].existing, existing_job, threads[t].jobId)
    IN  /\ threads[t].pc = "read_existing_job"
        /\ threads' = [threads EXCEPT
                ![t].pc = IF error = "Ok" THEN "create_read" ELSE "done",
                ![t].result = IF error = "Ok" THEN "" ELSE error]
        /\ UNCHANGED <<assignments, nextId>>

\* new_assignment = Assignment(...); AssignmentRepository.create: assignments = self.get_all()
CreateRead(t) ==
    /\ threads[t].pc = "create_read"
    /\ threads' = [threads EXCEPT
            ![t].new = <<NewAssignment(nextId, threads[t].employeeId,
                                       threads[t].jobId, clock)>>,
            ![t].list = assignments,
            ![t].pc = "create_write"]
    /\ nextId' = nextId + 1
    /\ UNCHANGED assignments

\* AssignmentRepository.create: assignments.append(assignment); self.save_all(assignments)
CreateWrite(t) ==
    /\ threads[t].pc = "create_write"
    /\ assignments' = AssignmentRepository_create(threads[t].list, threads[t].new[1])
    /\ threads' = [threads EXCEPT ![t].pc = "done", ![t].result = "Ok"]
    /\ UNCHANGED nextId

InitConc ==
    /\ InitTables /\ InitLocksIdle /\ InitOverlapIdle /\ InitStoreIdle
    /\ threads = [t \in ThreadIds |-> IdleThread]

ConcStart == \E t \in ThreadIds, e \in EmployeeIds, j \in JobIds : StartCreate(t, e, j)

ConcReadEmployee == \E t \in ThreadIds : ReadEmployee(t)

ConcReadJob == \E t \in ThreadIds : ReadJob(t)

ConcReadAssignments == \E t \in ThreadIds : ReadAssignments(t)

ConcReadExistingJob == \E t \in ThreadIds : ReadExistingJob(t)

ConcCreateRead == \E t \in ThreadIds : CreateRead(t)

ConcCreateWrite == \E t \in ThreadIds : CreateWrite(t)

concFrame == <<employees, jobs, clock, last, scenario, lockVars, ov, storeVars>>

NextConc ==
    \/ ConcStart           /\ UNCHANGED concFrame
    \/ ConcReadEmployee    /\ UNCHANGED concFrame
    \/ ConcReadJob         /\ UNCHANGED concFrame
    \/ ConcReadAssignments /\ UNCHANGED concFrame
    \/ ConcReadExistingJob /\ UNCHANGED concFrame
    \/ ConcCreateRead      /\ UNCHANGED concFrame
    \/ ConcCreateWrite     /\ UNCHANGED concFrame

SpecConc == InitConc /\ [][NextConc]_vars

-----------------------------------------------------------------------------
(* Properties of the stored schedule *)

JobOf(jbs, job_id) == JobRepository_get_by_id(jbs, job_id)

\* Half-open interval overlap of the windows of two job ids of the Job table
WindowsOverlap(jbs, j1, j2) ==
    /\ JobOf(jbs, j1) # <<>>
    /\ JobOf(jbs, j2) # <<>>
    /\ JobOf(jbs, j1)[1].startTime < JobOf(jbs, j2)[1].endTime
    /\ JobOf(jbs, j2)[1].startTime < JobOf(jbs, j1)[1].endTime

\* C1: with calls run one at a time, fixed Employee and Job tables and an
\* initially empty Assignment table, no employee has two stored assignments
\* whose jobs' time windows overlap.
C1_NoStoredOverlap ==
    \A a, b \in 1..Len(assignments) :
        (a < b /\ assignments[a].employeeId = assignments[b].employeeId)
            => ~WindowsOverlap(jobs, assignments[a].jobId, assignments[b].jobId)

\* C2: with calls run one at a time, fixed Employee and Job tables and an
\* initially empty Assignment table, no employee has two stored assignments
\* with the same jobId.
C2_NoStoredDuplicate ==
    \A a, b \in 1..Len(assignments) :
        (a < b /\ assignments[a].employeeId = assignments[b].employeeId)
            => assignments[a].jobId # assignments[b].jobId

-----------------------------------------------------------------------------
(* Properties of one create_assignment call, on the tables it started from *)

IsCreate == last.op = "create_assignment"

PreEmployees   == last.pre[1]
PreJobs        == last.pre[2]
PreAssignments == last.pre[3]

PreEmployee == EmployeeRepository_get_by_id(PreEmployees, last.employeeId)
PreJob      == JobRepository_get_by_id(PreJobs, last.jobId)

\* The employee of the call holds, at some position of the table, the job of the call
HoldsSameJob(asg, e, j) ==
    \E i \in 1..Len(asg) : asg[i].employeeId = e /\ asg[i].jobId = j

\* The employee of the call holds, at some position, a job overlapping the job of the call
HoldsOverlappingJob(jbs, asg, e, j) ==
    \E i \in 1..Len(asg) :
        asg[i].employeeId = e /\ WindowsOverlap(jbs, asg[i].jobId, j)

\* The first failure of the decision order that applies to (e, j), "Ok" when none does
FirstApplicable(emps, jbs, asg, e, j) ==
    IF EmployeeRepository_get_by_id(emps, e) = <<>> THEN "EmployeeNotFound"
    ELSE IF JobRepository_get_by_id(jbs, j) = <<>> THEN "JobNotFound"
    ELSE IF ~EmployeeRepository_get_by_id(emps, e)[1].availability THEN "EmployeeUnavailable"
    ELSE IF HoldsSameJob(asg, e, j) THEN "DoubleBooking"
    ELSE IF HoldsOverlappingJob(jbs, asg, e, j) THEN "TimeOverlap"
    ELSE "Ok"

\* C4: create_assignment(e, j) for an existing available employee and an
\* existing job returns DoubleBooking and stores nothing whenever some stored
\* assignment of e, at any position of the table, has jobId = j.
C4_DoubleBookingAnyPosition ==
    ( /\ IsCreate
      /\ PreEmployee # <<>>
      /\ PreJob # <<>>
      /\ PreEmployee[1].availability
      /\ HoldsSameJob(PreAssignments, last.employeeId, last.jobId) )
    => (last.result = "DoubleBooking" /\ assignments = PreAssignments)

\* C5: the error create_assignment reports is the first applicable one in the
\* order EmployeeNotFound, JobNotFound, EmployeeUnavailable, DoubleBooking,
\* TimeOverlap.
C5_FirstApplicableError ==
    (IsCreate /\ last.result # "Ok")
    => last.result = FirstApplicable(PreEmployees, PreJobs, PreAssignments,
                                     last.employeeId, last.jobId)

\* The three cases C5 lists: both ids unknown; unavailable employee and unknown
\* job; unavailable employee already holding the same or an overlapping job.
C5_ListedCases ==
    IsCreate =>
        /\ (PreEmployee = <<>> /\ PreJob = <<>>) => last.result = "EmployeeNotFound"
        /\ (PreEmployee # <<>> /\ ~PreEmployee[1].availability /\ PreJob = <<>>)
                => last.result = "JobNotFound"
        /\ ( /\ PreEmployee # <<>> /\ ~PreEmployee[1].availability /\ PreJob # <<>>
             /\ \/ HoldsSameJob(PreAssignments, last.employeeId, last.jobId)
                \/ HoldsOverlappingJob(PreJobs, PreAssignments, last.employeeId, last.jobId) )
                => last.result = "EmployeeUnavailable"

\* C6 as stated: a stored assignment is for an employee whose availability was
\* true when validation read it, and create_assignment for an employee with
\* availability = false returns EmployeeUnavailable and leaves the Assignment
\* table unchanged.
C6_UnavailableAlwaysReported ==
    IsCreate =>
        /\ last.result = "Ok" => (PreEmployee # <<>> /\ PreEmployee[1].availability)
        /\ (PreEmployee # <<>> /\ ~PreEmployee[1].availability)
                => (last.result = "EmployeeUnavailable" /\ assignments = PreAssignments)

\* C6 amended: a stored assignment is for an employee whose availability was
\* true when validation read it; create_assignment for an employee with
\* availability = false leaves the Assignment table unchanged and returns
\* EmployeeUnavailable when the job exists, JobNotFound when it does not.
C6_UnavailableRejected ==
    IsCreate =>
        /\ last.result = "Ok" => (PreEmployee # <<>> /\ PreEmployee[1].availability)
        /\ (PreEmployee # <<>> /\ ~PreEmployee[1].availability)
                => /\ assignments = PreAssignments
                   /\ last.result = IF PreJob = <<>> THEN "JobNotFound"
                                    ELSE "EmployeeUnavailable"

\* An unavailable employee who holds an assignment was refused an existing job
C6_Witness ==
    /\ IsCreate
    /\ PreEmployee # <<>>
    /\ ~PreEmployee[1].availability
    /\ PreJob # <<>>
    /\ \E i \in 1..Len(PreAssignments) : PreAssignments[i].employeeId = last.employeeId
    /\ last.result = "EmployeeUnavailable"

\* C7: from the empty table with E1 available, J1 [8,16) and J2 [15,23):
\* create(E1,J1) succeeds, then create(E1,J2) returns TimeOverlap, then
\* create(E1,J1) returns DoubleBooking, and the table then holds exactly the
\* one assignment (E1,J1).
C7_Scenario ==
    /\ scenario = 1 => last.result = "Ok"
    /\ scenario = 2 => last.result = "TimeOverlap"
    /\ scenario = 3 => last.result = "DoubleBooking"
    /\ scenario \in {1, 2, 3} =>
            /\ Len(assignments) = 1
            /\ assignments[1].employeeId = "E1"
            /\ assignments[1].jobId = "J1"

C7_Witness == scenario = 3 /\ last.result = "DoubleBooking"

\* C8: when create_assignment returns an error the Assignment, Employee and
\* Job tables are as before the call and no Assignment was constructed; when it
\* succeeds the one new Assignment is appended and nothing else changes.
C8_ErrorWritesNothing ==
    IsCreate =>
        /\ last.result # "Ok" => (tables = last.pre /\ last.id = <<>>)
        /\ last.result = "Ok" =>
                /\ employees = PreEmployees
                /\ jobs = PreJobs
                /\ Len(assignments) = Len(PreAssignments) + 1
                /\ SubSeq(assignments, 1, Len(PreAssignments)) = PreAssignments
                /\ assignments[Len(assignments)].id = last.id
                /\ assignments[Len(assignments)].employeeId = last.employeeId
                /\ assignments[Len(assignments)].jobId = last.jobId

\* A call was refused for a conflict while the table held assignments
C8_Witness ==
    /\ IsCreate
    /\ last.result \in {"DoubleBooking", "TimeOverlap"}
    /\ Len(PreAssignments) >= 1
    /\ assignments = PreAssignments

-----------------------------------------------------------------------------
(* Two concurrent create_assignment calls *)

Stored(a) == \E i \in 1..Len(assignments) : assignments[i] = a

\* Both calls returned success for one employee and both assignments are stored
BothStored(t1, t2) ==
    /\ t1 # t2
    /\ threads[t1].pc = "done" /\ threads[t1].result = "Ok"
    /\ threads[t2].pc = "done" /\ threads[t2].result = "Ok"
    /\ threads[t1].employeeId = threads[t2].employeeId
    /\ Stored(threads[t1].new[1])
    /\ Stored(threads[t2].new[1])

StoredDuplicate(t1, t2) ==
    BothStored(t1, t2) /\ threads[t1].jobId = threads[t2].jobId

StoredOverlap(t1, t2) ==
    /\ BothStored(t1, t2)
    /\ threads[t1].jobId # threads[t2].jobId
    /\ WindowsOverlap(jobs, threads[t1].jobId, threads[t2].jobId)

\* C3: two concurrent create_assignment calls for one employee can both pass
\* validation against the same pre-write snapshot and both be stored, leaving
\* a duplicate jobId or overlapping windows for the employee (C3_Witness is
\* that state); and whenever the two calls leave such a pair stored, both
\* validated against the same snapshot, taken before either had written.
C3_ConflictFromSharedSnapshot ==
    \A t1, t2 \in ThreadIds :
        (StoredDuplicate(t1, t2) \/ StoredOverlap(t1, t2))
            => /\ threads[t1].snapshot = threads[t2].snapshot
               /\ \A i \in 1..Len(threads[t1].snapshot) :
                      /\ threads[t1].snapshot[i] # threads[t1].new[1]
                      /\ threads[t1].snapshot[i] # threads[t2].new[1]

C3_Witness ==
    \E t1, t2 \in ThreadIds :
        /\ StoredDuplicate(t1, t2) \/ StoredOverlap(t1, t2)
        /\ threads[t1].snapshot = threads[t2].snapshot

C3_WitnessDuplicate == \E t1, t2 \in ThreadIds : StoredDuplicate(t1, t2)

C3_WitnessOverlap == \E t1, t2 \in ThreadIds : StoredOverlap(t1, t2)

\* C11: repository create is one read-modify-write under the table lock, so
\* when two create calls on the schedule table run concurrently, both new
\* records are in the table once both calls have returned.
C11_NoLostUpdate ==
    \A t1, t2 \in ThreadIds :
        ( /\ t1 # t2
          /\ threads[t1].pc = "done" /\ threads[t1].result = "Ok"
          /\ threads[t2].pc = "done" /\ threads[t2].result = "Ok" )
            => (Stored(threads[t1].new[1]) /\ Stored(threads[t2].new[1]))

-----------------------------------------------------------------------------
(* data_service on one table file: what open(file_path, "w"), json.dump and  *)
(* json.load do to the file, failures of the write included.  The file is    *)
(* absent (<<>>) or holds a JSON text: the items written so far and whether  *)
(* the closing bracket of the list was written.                              *)

MaxRecords == 2     \* records in one list handed to write_json_file

\* Dictionaries as model_dump(mode="json") produces them: a string, a boolean
\* and an optional string
FileDicts ==
    { [id |-> "A1", availability |-> TRUE,  notes |-> <<>>],
      [id |-> "A2", availability |-> FALSE, notes |-> <<"n">>],
      [id |-> "A1", availability |-> FALSE, notes |-> <<>>] }

RECURSIVE ListsUpTo(_)
ListsUpTo(n) ==
    IF n = 0 THEN { <<>> }
    ELSE LET shorter == ListsUpTo(n - 1)
         IN  shorter \cup { Append(l, d) : l \in { x \in shorter : Len(x) = n - 1 },
                                           d \in FileDicts }

FileData == ListsUpTo(MaxRecords)

\* json.dump of one dictionary: every value becomes a JSON token
JsonDumpDict(d) ==
    [id           |-> <<"string", d.id>>,
     availability |-> IF d.availability THEN <<"true">> ELSE <<"false">>,
     notes        |-> IF d.notes = <<>> THEN <<"null">> ELSE <<"string", d.notes[1]>>]

JsonDumpItems(data) == [i \in 1..Len(data) |-> JsonDumpDict(data[i])]

\* json.load of one object: every JSON token becomes a Python value
JsonLoadDict(o) ==
    [id           |-> o.id[2],
     availability |-> (o.availability[1] = "true"),
     notes        |-> IF o.notes[1] = "null" THEN <<>> ELSE <<o.notes[2]>>]

FileAbsent == <<>>

FileText(items, closed) == <<[items |-> items, closed |-> closed]>>

\* open(file_path, "a"): what the file holds is kept
OpenForAppend(d) == IF d = FileAbsent THEN FileText(<<>>, FALSE)
                    ELSE FileText(d[1].items, FALSE)

\* open(file_path, "w"): the file is created or truncated
OpenForWrite(d) == FileText(<<>>, FALSE)

\* json.dump(data, f) ran to its end: the items and the closing bracket
\* follow what the file held after open
DumpAll(d, data) == FileText(d[1].items \o JsonDumpItems(data), TRUE)

\* json.dump(data, f) raised after k items: the text stops there
DumpSome(d, data, k) == FileText(d[1].items \o SubSeq(JsonDumpItems(data), 1, k), FALSE)

\* read_json_file without the file_path.exists() test: open raises
ReadJsonFile_NoExistsCheck(d) ==
    IF d = FileAbsent THEN [raised |-> TRUE, data |-> <<>>]
    ELSE IF d[1].closed
         THEN [raised |-> FALSE,
               data |-> [i \in 1..Len(d[1].items) |-> JsonLoadDict(d[1].items[i])]]
         ELSE [raised |-> TRUE, data |-> <<>>]

\* read_json_file: [] for an absent file, json.load of the text otherwise;
\* json.load raises JSONDecodeError on a text that is not a whole document
ReadJsonFile(d) ==
    IF d = FileAbsent THEN [raised |-> FALSE, data |-> <<>>]
    ELSE IF d[1].closed
         THEN [raised |-> FALSE,
               data |-> [i \in 1..Len(d[1].items) |-> JsonLoadDict(d[1].items[i])]]
         ELSE [raised |-> TRUE, data |-> <<>>]

\* AssignmentRepository.get_all: the list read_json_file returned, [] for None
AssignmentRepository_get_all(data) == data

IdleIo ==
    [op |-> "", pc |-> "idle", data |-> <<>>, result |-> <<>>, all |-> <<>>,
     found |-> <<>>, before |-> FileAbsent, written |-> <<>>, replaced |-> FALSE]

IoAtRest == io.pc \in {"idle", "done", "raised"}

\* write_json_file: file_path.parent.mkdir(...) raises; the file is not opened
WriteMkdirFail(data) ==
    /\ IoAtRest
    /\ io' = [io EXCEPT !.op = "write_json_file", !.pc = "raised", !.data = data,
                        !.result = <<>>, !.all = <<>>, !.found = <<>>,
                        !.before = disk]
    /\ UNCHANGED disk

\* write_json_file: open(file_path, "w", encoding="utf-8")
WriteOpen(data) ==
    /\ IoAtRest
    /\ disk' = OpenForWrite(disk)
    /\ io' = [io EXCEPT !.op = "write_json_file", !.pc = "open", !.data = data,
                        !.result = <<>>, !.all = <<>>, !.found = <<>>,
                        !.before = disk, !.written = <<>>]

\* write_json_file: json.dump(data, f, indent=2, ensure_ascii=False) returns
\* and the file is closed
WriteDump ==
    /\ io.op = "write_json_file" /\ io.pc = "open"
    /\ disk' = DumpAll(disk, io.data)
    /\ io' = [io EXCEPT !.pc = "done", !.written = <<io.data>>,
                        !.replaced = ( /\ io.before # FileAbsent
                                       /\ io.before[1].closed
                                       /\ io.before[1].items # <<>>
                                       /\ io.before # disk' )]

\* write_json_file: json.dump raises (an I/O error of f.write) after k items;
\* the with statement closes the file with what was written
WriteFail(k) ==
    /\ io.op = "write_json_file" /\ io.pc = "open"
    /\ k \in 0..Len(io.data)
    /\ disk' = DumpSome(disk, io.data, k)
    /\ io' = [io EXCEPT !.pc = "raised"]

\* AssignmentRepository.get_by_id(id): get_all(), which calls read_json_file
ReadFile(id) ==
    LET r   == ReadJsonFile(disk)
        all == AssignmentRepository_get_all(r.data)
    IN  /\ IoAtRest
        /\ io' = [io EXCEPT !.op = "read_json_file",
                            !.pc = IF r.raised THEN "raised" ELSE "done",
                            !.data = <<>>, !.result = r.data, !.all = all,
                            !.found = AssignmentRepository_get_by_id(all, id),
                            !.before = disk]
        /\ UNCHANGED disk

InitFile ==
    /\ InitTables /\ InitThreadsIdle /\ InitLocksIdle /\ InitOverlapIdle
    /\ disk = FileAbsent
    /\ io = IdleIo
    /\ table = <<>>
    /\ rq = <<>>
    /\ InitQueryIdle

FileMkdirFail == \E data \in FileData : WriteMkdirFail(data)

FileOpen == \E data \in FileData : WriteOpen(data)

FileDump == WriteDump

FileFail == \E k \in 0..MaxRecords : WriteFail(k)

FileRead == \E id \in {"A1", "A2"} : ReadFile(id)

fileFrame == <<seqVars, concVars, lockVars, ov, table, rq, queryVars>>

NextFile ==
    \/ FileMkdirFail /\ UNCHANGED fileFrame
    \/ FileOpen      /\ UNCHANGED fileFrame
    \/ FileDump      /\ UNCHANGED fileFrame
    \/ FileFail      /\ UNCHANGED fileFrame
    \/ FileRead      /\ UNCHANGED fileFrame

SpecFile == InitFile /\ [][NextFile]_vars

\* C12: write_json_file is all-or-nothing: after a write that failed at any
\* point after it had started, read_json_file of the table returns the
\* table's prior contents, never an empty, truncated or partial table (and
\* does not raise).
C12_AllOrNothing ==
    (io.op = "write_json_file" /\ io.pc = "raised")
        => ReadJsonFile(disk) = ReadJsonFile(io.before)

C14_AbsentTableReadsEmpty ==
    (io.op = "read_json_file" /\ io.before = FileAbsent)
        => /\ io.pc = "done"
           /\ io.result = <<>>
           /\ io.all = <<>>
           /\ io.found = <<>>
           /\ disk = FileAbsent

\* A table whose file does not exist was read, and the file still does not exist
C14_Witness ==
    /\ io.op = "read_json_file" /\ io.before = FileAbsent
    /\ disk = FileAbsent

-----------------------------------------------------------------------------
(* Locks under fair scheduling: every thread that can take a step of its    *)
(* call eventually takes it, and a thread waiting for a Lock object that is  *)
(* free again and again eventually gets it                                   *)

lockFrame == <<seqVars, concVars, ov, storeVars>>

LockStep(t) ==
    /\ GetLockTest(t) \/ GetLockStore(t) \/ GetLockReturn(t) \/ ReleaseLock(t)
    /\ UNCHANGED lockFrame

LockAcquire(t) == AcquireLock(t) /\ UNCHANGED lockFrame

SpecLockFair ==
    /\ InitLock
    /\ [][NextLock]_vars
    /\ \A t \in LockThreads : WF_vars(LockStep(t)) /\ SF_vars(LockAcquire(t))

\* The Lock objects thread t holds
HeldBy(t) == { l \in LockObjects : lockHolder[l] = t }

\* No call holds two locks, a call outside its locked section holds none, and
\* a call waiting for a lock waits for a thread that is inside the locked
\* section of the same table and can leave it
C15_LockDiscipline ==
    \A t \in LockThreads :
        /\ Cardinality(HeldBy(t)) <= 1
        /\ lk[t].pc # "locked" => HeldBy(t) = {}
        /\ lk[t].pc = "locked" => HeldBy(t) = {lk[t].lock}
        /\ (lk[t].pc = "acquire" /\ lockHolder[lk[t].lock] # NoThread)
              => LET h == lockHolder[lk[t].lock]
                 IN  /\ h # t
                     /\ lk[h].pc = "locked"
                     /\ lk[h].path = lk[t].path

-----------------------------------------------------------------------------
(* Repository calls on one table, one after the other.  The three            *)
(* repositories differ in the table they use and the model class they build; *)
(* the records here carry an id and, for get_by_employee_id, an employeeId.  *)

MaxTable == 3       \* records in the table

Repos == {"assignment", "employee", "job"}

RecordIds == {"A1", "A2"}

Entities == [id : RecordIds, employeeId : {"E1", "E2"}]

NoRepoCall ==
    [op |-> "", repo |-> "", arg |-> <<>>, result |-> <<>>, pre |-> <<>>,
     wrote |-> FALSE]

RepositoryUpdate(repo, xs, entity) ==
    CASE repo = "assignment" -> AssignmentRepository_update(xs, entity)
      [] repo = "employee"   -> EmployeeRepository_update(xs, entity)
      [] repo = "job"        -> JobRepository_update(xs, entity)

RepositoryDelete(repo, xs, id) ==
    CASE repo = "assignment" -> AssignmentRepository_delete(xs, id)
      [] repo = "employee"   -> EmployeeRepository_delete(xs, id)
      [] repo = "job"        -> JobRepository_delete(xs, id)

\* create(entity): xs = get_all(); xs.append(entity); save_all(xs); return entity
RepoCreate(repo, entity) ==
    /\ Len(table) < MaxTable
    /\ table' = AssignmentRepository_create(table, entity)
    /\ rq' = [op |-> "create", repo |-> repo, arg |-> <<entity>>,
              result |-> <<entity>>, pre |-> table, wrote |-> TRUE]

\* AssignmentRepository.get_by_employee_id(employee_id)
RepoGetByEmployeeId(employee_id) ==
    /\ rq' = [op |-> "get_by_employee_id", repo |-> "assignment",
              arg |-> <<employee_id>>,
              result |-> AssignmentRepository_get_by_employee_id(table, employee_id),
              pre |-> table, wrote |-> FALSE]
    /\ UNCHANGED table

\* update(entity): save_all and return entity inside the loop, at the first
\* record with the id; return None after the loop
RepoUpdate(repo, entity) ==
    LET found == \E i \in 1..Len(table) : table[i].id = entity.id
    IN  /\ table' = RepositoryUpdate(repo, table, entity)
        /\ rq' = [op |-> "update", repo |-> repo, arg |-> <<entity>>,
                  result |-> IF found THEN <<entity>> ELSE <<>>,
                  pre |-> table, wrote |-> found]

\* delete(id): save_all and return True if the filtered list is shorter,
\* return False otherwise
RepoDelete(repo, id) ==
    LET kept    == RepositoryDelete(repo, table, id)
        shorter == Len(kept) < Len(table)
    IN  /\ table' = IF shorter THEN kept ELSE table
        /\ rq' = [op |-> "delete", repo |-> repo, arg |-> <<id>>,
                  result |-> shorter, pre |-> table, wrote |-> shorter]

InitRepo ==
    /\ InitTables /\ InitThreadsIdle /\ InitLocksIdle /\ InitOverlapIdle
    /\ disk = <<>>
    /\ io = <<>>
    /\ table = <<>>
    /\ rq = NoRepoCall
    /\ InitQueryIdle

RepoCreateAny == \E repo \in Repos, entity \in Entities : RepoCreate(repo, entity)

RepoGetAny == \E e \in {"E1", "E2"} : RepoGetByEmployeeId(e)

RepoUpdateAny == \E repo \in Repos, entity \in Entities : RepoUpdate(repo, entity)

RepoDeleteAny == \E repo \in Repos, id \in RecordIds : RepoDelete(repo, id)

repoFrame == <<seqVars, concVars, lockVars, ov, disk, io, queryVars>>

NextRepo ==
    \/ RepoCreateAny /\ UNCHANGED repoFrame
    \/ RepoGetAny    /\ UNCHANGED repoFrame
    \/ RepoUpdateAny /\ UNCHANGED repoFrame
    \/ RepoDeleteAny /\ UNCHANGED repoFrame

SpecRepo == InitRepo /\ [][NextRepo]_vars

HasId(xs, id) == \E i \in 1..Len(xs) : xs[i].id = id

RECURSIVE WithoutId(_, _)
WithoutId(xs, id) ==
    IF xs = <<>> THEN <<>>
    ELSE IF Head(xs).id = id THEN WithoutId(Tail(xs), id)
         ELSE <<Head(xs)>> \o WithoutId(Tail(xs), id)

RECURSIVE WithEmployee(_, _)
WithEmployee(xs, e) ==
    IF xs = <<>> THEN <<>>
    ELSE IF Head(xs).employeeId = e THEN <<Head(xs)>> \o WithEmployee(Tail(xs), e)
         ELSE WithEmployee(Tail(xs), e)

\* C16: get_by_employee_id(id) returns the sequence of all stored assignments
\* whose employeeId equals id, in table order, and an empty sequence when
\* there are none.
C16_AllAssignmentsOfEmployee ==
    rq.op = "get_by_employee_id" => rq.result = WithEmployee(rq.pre, rq.arg[1])

\* C17: update(entity) with an id that is not in the table returns None, leaves
\* the table unchanged and writes nothing; with an id that is in the table it
\* returns the entity, replaces the (first) record with that id in place and
\* leaves every other record and the order unchanged.
C17_UpdateFrame ==
    rq.op = "update" =>
        LET entity == rq.arg[1]
        IN  IF ~HasId(rq.pre, entity.id)
            THEN rq.result = <<>> /\ table = rq.pre /\ ~rq.wrote
            ELSE /\ rq.result = <<entity>>
                 /\ rq.wrote
                 /\ Len(table) = Len(rq.pre)
                 /\ \E k \in 1..Len(rq.pre) :
                        /\ rq.pre[k].id = entity.id
                        /\ \A h \in 1..(k - 1) : rq.pre[h].id # entity.id
                        /\ table[k] = entity
                        /\ \A i \in 1..Len(rq.pre) : i # k => table[i] = rq.pre[i]

\* The second of three records was replaced by a different record with its id
C17_Witness ==
    /\ rq.op = "update"
    /\ Len(rq.pre) = 3
    /\ rq.pre[2].id = rq.arg[1].id
    /\ rq.pre[1].id # rq.arg[1].id
    /\ rq.pre[2] # rq.arg[1]
    /\ table[2] = rq.arg[1]

\* An update for an id that is not in a table of records was refused
C17_WitnessAbsent ==
    /\ rq.op = "update"
    /\ Len(rq.pre) >= 1
    /\ rq.result = <<>>

\* C18: delete(id) returns true iff a record with that id was in the table it
\* read; then the table holds exactly the former records with another id, in
\* their order; when it returns false the table is unchanged and nothing is
\* written.
C18_DeleteFrame ==
    rq.op = "delete" =>
        /\ rq.result = HasId(rq.pre, rq.arg[1])
        /\ rq.result => (table = WithoutId(rq.pre, rq.arg[1]) /\ rq.wrote)
        /\ ~rq.result => (table = rq.pre /\ ~rq.wrote)

\* A record between two records with another id was deleted
C18_Witness ==
    /\ rq.op = "delete"
    /\ rq.result
    /\ Len(rq.pre) = 3
    /\ rq.pre[2].id = rq.arg[1]
    /\ Len(table) = 2
    /\ table[1] # table[2]

\* A delete for an id that is not in a table of records returned false
C18_WitnessAbsent ==
    /\ rq.op = "delete"
    /\ ~rq.result
    /\ Len(rq.pre) >= 1

-----------------------------------------------------------------------------
(* delete_assignment, calls run one at a time *)

IsDelete == last.op = "delete_assignment"

\* C19: delete_assignment(id) for an id that no stored assignment has returns
\* AssignmentNotFound and leaves the Assignment, Employee and Job tables
\* unchanged.
C19_DeleteUnknownId ==
    (IsDelete /\ ~HasId(PreAssignments, last.id))
        => /\ last.result = "AssignmentNotFound"
           /\ tables = last.pre

\* An id that is not stored was given while other assignments were stored
C19_Witness ==
    /\ IsDelete
    /\ ~HasId(PreAssignments, last.id)
    /\ Len(PreAssignments) >= 1
    /\ last.result = "AssignmentNotFound"

\* C20: a successful delete_assignment(id) removes exactly the assignment with
\* that id: the other assignments remain in their order, the Employee and Job
\* tables are unchanged, and get_assignment_by_id(id) afterwards returns None.
C20_DeleteRemovesExactlyOne ==
    (IsDelete /\ last.result = "Ok")
        => /\ \E k \in 1..Len(PreAssignments) :
                  /\ PreAssignments[k].id = last.id
                  /\ assignments = SubSeq(PreAssignments, 1, k - 1)
                                     \o SubSeq(PreAssignments, k + 1, Len(PreAssignments))
           /\ employees = PreEmployees
           /\ jobs = PreJobs
           /\ AssignmentService_get_assignment_by_id(assignments, last.id) = <<>>

\* The first of several stored assignments was deleted and the others remain
C20_Witness ==
    /\ IsDelete /\ last.result = "Ok"
    /\ Len(PreAssignments) >= 2
    /\ PreAssignments[1].id = last.id
    /\ Len(assignments) = Len(PreAssignments) - 1
    /\ assignments[1] = PreAssignments[2]

-----------------------------------------------------------------------------
(* create_assignment followed by get_assignment_by_id *)

\* The Assignment the last create_assignment call returned
ReturnedAssignment ==
    [id |-> last.id, employeeId |-> last.employeeId, jobId |-> last.jobId,
     assignedAt |-> clock, notes |-> <<>>]

\* C21: after create_assignment(e, j) returned an assignment A, the Assignment
\* table is the previous table with A appended as its last record, and
\* get_assignment_by_id(A.id), reading the table back from its file, returns
\* an entity equal to A in id, employeeId, jobId, assignedAt and notes.
C21_CreateThenGet ==
    (IsCreate /\ last.result = "Ok")
        => /\ assignments = Append(PreAssignments, ReturnedAssignment)
           /\ AssignmentService_get_assignment_by_id(
                  LoadAssignments(DumpAssignments(assignments)), last.id)
                = <<ReturnedAssignment>>

\* An assignment was created for E1 and J1 while another was already stored
C21_Witness ==
    /\ IsCreate /\ last.result = "Ok"
    /\ last.employeeId = "E1" /\ last.jobId = "J1"
    /\ Len(PreAssignments) >= 1
    /\ assignments[Len(assignments)].id = last.id

-----------------------------------------------------------------------------
(* Construction of Job and Employee (pydantic): the constraints of Field     *)
(* are checked on the value given, the field_validator runs on a value that  *)
(* passed them, and the model_validator runs when no field is in error.      *)
(*                                                                           *)
(* A name is a sequence of runs [ch, n]: n times the character ch, adjacent  *)
(* runs of different characters.  "a" stands for a letter, " " for white     *)
(* space, "-" for a hyphen or an apostrophe, "1" for any other character.    *)
(* Times are counted in quarters of an hour.                                 *)

MaxRuns  == 2       \* runs in a name
MaxStart == 1       \* startTime in 0..MaxStart
MaxEnd   == 98      \* endTime in 0..MaxEnd

HalfHour == 2       \* duration < 0.5 is refused
FullDay  == 96      \* duration > 24 is refused

MinJobName      == 3
MaxJobName      == 200
MinEmployeeName == 2
MaxEmployeeName == 100

RunLengths == {1, 2, 3, 100, 101, 200, 201}

Runs(chars) == [ch : chars, n : RunLengths]

RECURSIVE NamesUpTo(_, _)
NamesUpTo(chars, k) ==
    IF k = 0 THEN { <<>> }
    ELSE LET shorter == NamesUpTo(chars, k - 1)
         IN  shorter \cup
             { Append(nm, r) : nm \in { x \in shorter : Len(x) = k - 1 },
                               r \in Runs(chars) }

\* No two adjacent runs of one character
Canonical(nm) == \A i \in 1..(Len(nm) - 1) : nm[i].ch # nm[i + 1].ch

JobNames == { nm \in NamesUpTo({"a", " "}, MaxRuns) : Canonical(nm) }

EmployeeNames == { nm \in NamesUpTo({"a", " ", "-", "1"}, MaxRuns) : Canonical(nm) }

\* len(v)
RECURSIVE StrLen(_)
StrLen(nm) == IF nm = <<>> THEN 0 ELSE Head(nm).n + StrLen(Tail(nm))

RECURSIVE LStrip(_)
LStrip(nm) ==
    IF nm = <<>> THEN <<>>
    ELSE IF Head(nm).ch = " " THEN LStrip(Tail(nm)) ELSE nm

RECURSIVE RStrip(_)
RStrip(nm) ==
    IF nm = <<>> THEN <<>>
    ELSE IF nm[Len(nm)].ch = " " THEN RStrip(SubSeq(nm, 1, Len(nm) - 1)) ELSE nm

\* v.strip()
Strip(nm) == RStrip(LStrip(nm))

\* " ".join(v.split())
JoinSplit(nm) ==
    LET st == Strip(nm)
    IN  [i \in 1..Len(st) |-> IF st[i].ch = " " THEN [ch |-> " ", n |-> 1] ELSE st[i]]

\* not all(c.isalpha() or c in " -'" for c in cleaned)
HasInvalidCharacter(nm) == \E i \in 1..Len(nm) : nm[i].ch \notin {"a", " ", "-"}

\* Job.name: Field(min_length=3, max_length=200), then validate_name
Job_name_errors(name) ==
    IF StrLen(name) < MinJobName \/ StrLen(name) > MaxJobName THEN {"name"}
    ELSE IF Strip(name) = <<>> THEN {"name"}
    ELSE {}

\* Job.startTime / Job.endTime: datetime; <<>> is a value that is no datetime
Job_field_errors(name, startTime, endTime) ==
    Job_name_errors(name)
        \cup (IF startTime = <<>> THEN {"startTime"} ELSE {})
        \cup (IF endTime = <<>> THEN {"endTime"} ELSE {})

\* a limit of 24 hours that refuses a duration of exactly 24 hours
Job_validate_time_range_Exclusive(startTime, endTime) ==
    IF endTime <= startTime THEN {"time_range"}
    ELSE IF endTime - startTime >= FullDay THEN {"time_range"}
    ELSE IF endTime - startTime < HalfHour THEN {"time_range"}
    ELSE {}

\* Job.validate_time_range
Job_validate_time_range(startTime, endTime) ==
    IF endTime <= startTime THEN {"time_range"}
    ELSE IF endTime - startTime > FullDay THEN {"time_range"}
    ELSE IF endTime - startTime < HalfHour THEN {"time_range"}
    ELSE {}

\* a construction that runs the model validator whatever the name
Job_AllErrors(name, startTime, endTime) ==
    LET fields == Job_field_errors(name, startTime, endTime)
        range  == IF startTime = <<>> \/ endTime = <<>> THEN {}
                  ELSE Job_validate_time_range(startTime[1], endTime[1])
    IN  [errors |-> fields \cup range,
         name   |-> IF fields \cup range = {} THEN Strip(name) ELSE <<>>]

\* Job(name=..., startTime=..., endTime=...): the errors raised and, when there
\* are none, the name of the Job built
Job(name, startTime, endTime) ==
    LET fields == Job_field_errors(name, startTime, endTime)
    IN  IF fields # {} THEN [errors |-> fields, name |-> <<>>]
        ELSE LET range == Job_validate_time_range(startTime[1], endTime[1])
             IN  [errors |-> range,
                  name   |-> IF range = {} THEN Strip(name) ELSE <<>>]

Roles == {"TCP", "LCT", "Supervisor"}

\* Employee.name: Field(min_length=2, max_length=100), then validate_name
Employee_name_errors(name) ==
    IF StrLen(name) < MinEmployeeName \/ StrLen(name) > MaxEmployeeName THEN {"name"}
    ELSE IF Strip(name) = <<>> THEN {"name"}
    ELSE IF HasInvalidCharacter(JoinSplit(name)) THEN {"name"}
    ELSE {}

\* Employee(name=..., role=...)
Employee(name, role) ==
    LET errors == Employee_name_errors(name)
                    \cup (IF role \in Roles THEN {} ELSE {"role"})
    IN  [errors |-> errors,
         name   |-> IF errors = {} THEN JoinSplit(name) ELSE <<>>]

\* A datetime given, or a value that is no datetime
StartTimes == { <<t>> : t \in 0..MaxStart } \cup { <<>> }

EndTimes == { <<t>> : t \in 0..MaxEnd }

JobArguments ==
    [kind : {"Job"}, name : JobNames, startTime : StartTimes, endTime : EndTimes,
     role : {""}]

EmployeeArguments ==
    [kind : {"Employee"}, name : EmployeeNames, startTime : {<<>>}, endTime : {<<>>},
     role : {"TCP", "Supervisor", "Manager"}]

ConstructJob ==
    /\ mv.kind = "Job" /\ ~mv.done
    /\ mv' = [mv EXCEPT !.done = TRUE,
                        !.out = Job(mv.args.name, mv.args.startTime, mv.args.endTime)]

ConstructEmployee ==
    /\ mv.kind = "Employee" /\ ~mv.done
    /\ mv' = [mv EXCEPT !.done = TRUE,
                        !.out = Employee(mv.args.name, mv.args.role)]

InitModels ==
    /\ InitTables /\ InitThreadsIdle /\ InitLocksIdle /\ InitOverlapIdle
    /\ disk = <<>> /\ io = <<>> /\ table = <<>> /\ rq = <<>>
    /\ jq = <<>> /\ en = <<>>
    /\ \E a \in JobArguments \cup EmployeeArguments :
           mv = [kind |-> a.kind, args |-> a, done |-> FALSE,
                 out |-> [errors |-> {}, name |-> <<>>]]

modelsFrame == <<seqVars, concVars, lockVars, ov, disk, io, table, rq, jq, en>>

NextModels ==
    \/ ConstructJob      /\ UNCHANGED modelsFrame
    \/ ConstructEmployee /\ UNCHANGED modelsFrame

SpecModels == InitModels /\ [][NextModels]_vars

JobBuilt == mv.kind = "Job" /\ mv.done

EmployeeBuilt == mv.kind = "Employee" /\ mv.done

Accepted == mv.out.errors = {}

\* C22: construction of a Job whose fields are valid one by one succeeds iff
\* endTime is strictly after startTime and the duration is at least half an
\* hour and at most 24 hours, both limits included.
C22_JobTimeRange ==
    (JobBuilt /\ mv.out.errors \cap {"name", "startTime", "endTime"} = {})
        => LET startTime == mv.args.startTime[1]
               endTime   == mv.args.endTime[1]
           IN  Accepted <=> ( /\ endTime > startTime
                              /\ endTime - startTime >= HalfHour
                              /\ endTime - startTime <= FullDay )

\* A Job of exactly 24 hours was accepted
C22_Witness ==
    /\ JobBuilt /\ Accepted
    /\ mv.args.endTime[1] - mv.args.startTime[1] = FullDay

\* A Job of exactly half an hour was accepted
C22_WitnessHalfHour ==
    /\ JobBuilt /\ Accepted
    /\ mv.args.endTime[1] - mv.args.startTime[1] = HalfHour

\* A Job with endTime = startTime and a valid name was refused
C22_WitnessEqual ==
    /\ JobBuilt /\ ~Accepted
    /\ mv.out.errors = {"time_range"}
    /\ mv.args.endTime = mv.args.startTime

TimeRangeInvalid ==
    /\ mv.args.startTime # <<>> /\ mv.args.endTime # <<>>
    /\ \/ mv.args.endTime[1] <= mv.args.startTime[1]
       \/ mv.args.endTime[1] - mv.args.startTime[1] < HalfHour
       \/ mv.args.endTime[1] - mv.args.startTime[1] > FullDay

C23_WitnessTwoFields ==
    /\ JobBuilt
    /\ StrLen(mv.args.name) < MinJobName
    /\ mv.out.errors = {"name", "startTime"}

\* The letters, spaces, hyphens and apostrophes of a name, and nothing else
OnlyNameCharacters(nm) == \A i \in 1..Len(nm) : nm[i].ch \in {"a", " ", "-"}

\* C24: every Employee that construction accepts has a resulting name of 2 to
\* 100 characters made only of letters, spaces, hyphens and apostrophes;
\* every Job that construction accepts has a trimmed name of 3 to 200
\* characters.
C24_AcceptedNames ==
    /\ (EmployeeBuilt /\ Accepted)
          => /\ StrLen(mv.out.name) >= MinEmployeeName
             /\ StrLen(mv.out.name) <= MaxEmployeeName
             /\ OnlyNameCharacters(mv.out.name)
    /\ (JobBuilt /\ Accepted)
          => /\ StrLen(mv.out.name) >= MinJobName
             /\ StrLen(mv.out.name) <= MaxJobName
             /\ mv.out.name = Strip(mv.out.name)

\* C24 for Job alone
C24_AcceptedJobNames ==
    (JobBuilt /\ Accepted) => StrLen(mv.out.name) >= MinJobName

\* C24 for Employee alone
C24_AcceptedEmployeeNames ==
    (EmployeeBuilt /\ Accepted) => StrLen(mv.out.name) >= MinEmployeeName

-----------------------------------------------------------------------------
(* JobService: get_all_jobs, get_upcoming_jobs, get_statistics on a job      *)
(* table.  Times are whole hours; the stored times carry no time zone.  A    *)
(* filter argument is absent (None), the empty string, a string that does    *)
(* not parse, or a string that parses: for a date to a datetime without      *)
(* ("naive") or with ("aware") a time zone, for a duration to a number.      *)

MaxJobs   == 3      \* jobs in the table
MaxFilter == 2      \* filter dates, filter durations and now in 0..MaxFilter

JobPool ==
    { [id |-> "J1", startTime |-> 0, endTime |-> 2],
      [id |-> "J2", startTime |-> 1, endTime |-> 2],
      [id |-> "J3", startTime |-> 1, endTime |-> 3],
      [id |-> "J4", startTime |-> 2, endTime |-> 3] }

RECURSIVE JobTablesUpTo(_)
JobTablesUpTo(k) ==
    IF k = 0 THEN { <<>> }
    ELSE LET shorter == JobTablesUpTo(k - 1)
         IN  shorter \cup
             { Append(tb, j) : tb \in { x \in shorter : Len(x) = k - 1 },
                               j \in JobPool }

\* Job tables: no id twice
JobTables ==
    { tb \in JobTablesUpTo(MaxJobs) :
        \A i, k \in 1..Len(tb) : tb[i].id = tb[k].id => i = k }

DateArguments ==
    [kind : {"absent", "empty", "garbage"}, t : {0}]
        \cup [kind : {"naive", "aware"}, t : 0..MaxFilter]

DurationArguments ==
    [kind : {"absent", "empty", "garbage"}, t : {0}]
        \cup [kind : {"number"}, t : 0..MaxFilter]

\* if start_date: (None and "" are false)
Truthy(arg) == arg.kind \notin {"absent", "empty"}

\* job.get_duration_hours()
Job_get_duration_hours(job) == job.endTime - job.startTime

\* list.sort(key=lambda j: j.startTime): stable, ascending
RECURSIVE SortByStartTime(_)
SortByStartTime(js) ==
    IF js = <<>> THEN <<>>
    ELSE LET rest == SortByStartTime(SubSeq(js, 1, Len(js) - 1))
             x    == js[Len(js)]
             k    == Cardinality({ i \in 1..Len(rest) : rest[i].startTime <= x.startTime })
         IN  SubSeq(rest, 1, k) \o <<x>> \o SubSeq(rest, k + 1, Len(rest))

\* list.sort(key=lambda j: j.startTime, reverse=True): stable, descending
RECURSIVE SortByStartTimeReverse(_)
SortByStartTimeReverse(js) ==
    IF js = <<>> THEN <<>>
    ELSE LET rest == SortByStartTimeReverse(SubSeq(js, 1, Len(js) - 1))
             x    == js[Len(js)]
             k    == Cardinality({ i \in 1..Len(rest) : rest[i].startTime >= x.startTime })
         IN  SubSeq(rest, 1, k) \o <<x>> \o SubSeq(rest, k + 1, Len(rest))

\* One filter step of get_all_jobs on the list so far: the error it returns,
\* the exception that escapes it, or the filtered list
DateFilter(js, arg, isStart) ==
    IF ~Truthy(arg) THEN [error |-> "", jobs |-> js]
    ELSE IF arg.kind = "garbage" THEN [error |-> "InvalidDateTime", jobs |-> <<>>]
    ELSE IF arg.kind = "aware" /\ js # <<>>
         \* a stored datetime without time zone compared with one that has one
         THEN [error |-> "TypeError", jobs |-> <<>>]
    ELSE [error |-> "",
          jobs  |-> IF isStart
                    THEN SelectSeq(js, LAMBDA j : j.startTime >= arg.t)
                    ELSE SelectSeq(js, LAMBDA j : j.endTime <= arg.t)]

DurationFilter(js, arg, isMin) ==
    IF ~Truthy(arg) THEN [error |-> "", jobs |-> js]
    ELSE IF arg.kind = "garbage" THEN [error |-> "InvalidParameter", jobs |-> <<>>]
    ELSE [error |-> "",
          jobs  |-> IF isMin
                    THEN SelectSeq(js, LAMBDA j : Job_get_duration_hours(j) >= arg.t)
                    ELSE SelectSeq(js, LAMBDA j : Job_get_duration_hours(j) <= arg.t)]

\* JobService.get_all_jobs(start_date, end_date, min_duration, max_duration)
JobService_get_all_jobs(js, start_date, end_date, min_duration, max_duration) ==
    LET s1 == DateFilter(js, start_date, TRUE)
    IN  IF s1.error # "" THEN s1
        ELSE LET s2 == DateFilter(s1.jobs, end_date, FALSE)
        IN  IF s2.error # "" THEN s2
        ELSE LET s3 == DurationFilter(s2.jobs, min_duration, TRUE)
        IN  IF s3.error # "" THEN s3
        ELSE LET s4 == DurationFilter(s3.jobs, max_duration, FALSE)
        IN  IF s4.error # "" THEN s4
        ELSE [error |-> "", jobs |-> SortByStartTimeReverse(s4.jobs)]

\* an upcoming filter that keeps a job starting exactly now
JobService_get_upcoming_jobs_Inclusive(js, now) ==
    SortByStartTime(SelectSeq(js, LAMBDA j : j.startTime >= now))

\* JobService.get_upcoming_jobs(): now = datetime.now()
JobService_get_upcoming_jobs(js, now) ==
    SortByStartTime(SelectSeq(js, LAMBDA j : j.startTime > now))

RECURSIVE SumDurations(_)
SumDurations(js) ==
    IF js = <<>> THEN 0 ELSE Job_get_duration_hours(Head(js)) + SumDurations(Tail(js))

Durations(js) == { Job_get_duration_hours(js[i]) : i \in 1..Len(js) }

\* round(num / den, 2), in hundredths
RoundHundredths(num, den) == (200 * num + den) \div (2 * den)

\* JobService.get_statistics(): the dictionary returned, durations in
\* hundredths of an hour
JobService_get_statistics(js) ==
    IF js = <<>>
    THEN [totalJobs |-> 0, averageDurationHours |-> 0,
          shortestDurationHours |-> 0, longestDurationHours |-> 0]
    ELSE [totalJobs |-> Len(js),
          averageDurationHours |-> RoundHundredths(SumDurations(js), Len(js)),
          shortestDurationHours |->
              100 * (CHOOSE d \in Durations(js) : \A e \in Durations(js) : d <= e),
          longestDurationHours |->
              100 * (CHOOSE d \in Durations(js) : \A e \in Durations(js) : d >= e),
          totalHours |-> 100 * SumDurations(js)]

NoFilter == [kind |-> "absent", t |-> 0]

JobQueries ==
    [op : {"get_all_jobs"}, start_date : DateArguments, end_date : DateArguments,
     min_duration : DurationArguments, max_duration : DurationArguments, now : {0}]
    \cup
    [op : {"get_upcoming_jobs", "get_statistics"}, start_date : {NoFilter},
     end_date : {NoFilter}, min_duration : {NoFilter}, max_duration : {NoFilter},
     now : 0..MaxFilter]

GetAllJobs ==
    /\ jq.call.op = "get_all_jobs" /\ ~jq.done
    /\ jq' = [jq EXCEPT !.done = TRUE,
                        !.out = JobService_get_all_jobs(jq.jobs, jq.call.start_date,
                                    jq.call.end_date, jq.call.min_duration,
                                    jq.call.max_duration)]

GetUpcomingJobs ==
    /\ jq.call.op = "get_upcoming_jobs" /\ ~jq.done
    /\ jq' = [jq EXCEPT !.done = TRUE,
                        !.out = [error |-> "",
                                 jobs |-> JobService_get_upcoming_jobs(jq.jobs,
                                                                       jq.call.now)]]

GetStatistics ==
    /\ jq.call.op = "get_statistics" /\ ~jq.done
    /\ jq' = [jq EXCEPT !.done = TRUE,
                        !.out = JobService_get_statistics(jq.jobs)]

InitJobs ==
    /\ InitTables /\ InitThreadsIdle /\ InitLocksIdle /\ InitOverlapIdle
    /\ disk = <<>> /\ io = <<>> /\ table = <<>> /\ rq = <<>>
    /\ mv = <<>> /\ en = <<>>
    /\ \E tb \in JobTables, c \in JobQueries :
           jq = [jobs |-> tb, call |-> c, done |-> FALSE, out |-> <<>>]

jobsFrame == <<seqVars, concVars, lockVars, ov, disk, io, table, rq, mv, en>>

NextJobs ==
    \/ GetAllJobs      /\ UNCHANGED jobsFrame
    \/ GetUpcomingJobs /\ UNCHANGED jobsFrame
    \/ GetStatistics   /\ UNCHANGED jobsFrame

SpecJobs == InitJobs /\ [][NextJobs]_vars

AllJobsDone == jq.call.op = "get_all_jobs" /\ jq.done

\* A filter was supplied and its string is not of the form the filter needs
Malformed(arg) == arg.kind \in {"empty", "garbage"}

MalformedDate == Malformed(jq.call.start_date) \/ Malformed(jq.call.end_date)

MalformedDuration == Malformed(jq.call.min_duration) \/ Malformed(jq.call.max_duration)

\* C25: get_all_jobs returns a typed error and no job list whenever a supplied
\* filter value is malformed: InvalidDateTime for a startDate or endDate that
\* is no date-time, InvalidParameter for a minDuration or maxDuration that is
\* not numeric, for every supplied string, the empty string included.
C25_MalformedFilterRejected ==
    (AllJobsDone /\ (MalformedDate \/ MalformedDuration))
        => /\ jq.out.jobs = <<>>
           /\ jq.out.error \in
                  (IF MalformedDate THEN {"InvalidDateTime"} ELSE {})
                    \cup (IF MalformedDuration THEN {"InvalidParameter"} ELSE {})

Satisfies(j) ==
    /\ Truthy(jq.call.start_date) => j.startTime >= jq.call.start_date.t
    /\ Truthy(jq.call.end_date) => j.endTime <= jq.call.end_date.t
    /\ Truthy(jq.call.min_duration) => j.endTime - j.startTime >= jq.call.min_duration.t
    /\ Truthy(jq.call.max_duration) => j.endTime - j.startTime <= jq.call.max_duration.t

StoredJobs == { jq.jobs[i] : i \in 1..Len(jq.jobs) }

Returned == { jq.out.jobs[i] : i \in 1..Len(jq.out.jobs) }

WellFormed(arg) == arg.kind \in {"absent", "naive", "aware", "number"}

AllWellFormed ==
    /\ WellFormed(jq.call.start_date) /\ WellFormed(jq.call.end_date)
    /\ WellFormed(jq.call.min_duration) /\ WellFormed(jq.call.max_duration)

\* C26: when all supplied filters are well-formed, get_all_jobs returns
\* exactly the stored jobs that satisfy every supplied filter, each once,
\* sorted by startTime descending; with no filter, all stored jobs.
C26_FilteredAndSorted ==
    (AllJobsDone /\ AllWellFormed)
        => /\ jq.out.error = ""
           /\ Returned = { j \in StoredJobs : Satisfies(j) }
           /\ Len(jq.out.jobs) = Cardinality(Returned)
           /\ \A i, k \in 1..Len(jq.out.jobs) :
                  i < k => jq.out.jobs[i].startTime >= jq.out.jobs[k].startTime

\* C26 for filter dates without a time zone
C26_NaiveFilteredAndSorted ==
    (AllJobsDone /\ AllWellFormed
       /\ jq.call.start_date.kind # "aware" /\ jq.call.end_date.kind # "aware")
        => /\ jq.out.error = ""
           /\ Returned = { j \in StoredJobs : Satisfies(j) }
           /\ Len(jq.out.jobs) = Cardinality(Returned)
           /\ \A i, k \in 1..Len(jq.out.jobs) :
                  i < k => jq.out.jobs[i].startTime >= jq.out.jobs[k].startTime

StatisticsFields ==
    {"totalJobs", "averageDurationHours", "shortestDurationHours",
     "longestDurationHours", "totalHours"}

\* C30: get_statistics on an empty Job table returns every field of the
\* statistics record (count, average, shortest, longest and total hours) with
\* value 0; the set of fields is the same for an empty and a non-empty table.
C30_StatisticsFields ==
    (jq.call.op = "get_statistics" /\ jq.done)
        => /\ DOMAIN jq.out = StatisticsFields
           /\ jq.jobs = <<>> => \A f \in StatisticsFields : jq.out[f] = 0

-----------------------------------------------------------------------------
(* ScheduleService.get_enriched_assignments on the three tables as the files *)
(* hold them: rows with datetimes as ISO 8601 text.  A row of the schedule   *)
(* may name an employee or a job that its table does not hold.               *)

MaxAssignments == 2     \* rows of the schedule file
MaxAssignedAt  == 1     \* assignedAt in 0..MaxAssignedAt

EmployeeRows ==
    { [id |-> "E1", name |-> "Ann", role |-> "TCP"],
      [id |-> "E2", name |-> "Bob", role |-> "LCT"] }

JobRows ==
    { [id |-> "J1", name |-> "Day", startTime |-> IsoFormat(0), endTime |-> IsoFormat(2)],
      [id |-> "J2", name |-> "Night", startTime |-> IsoFormat(1), endTime |-> IsoFormat(3)] }

\* The tables over a set of rows: each row at most once, in any order
RECURSIVE RowsUpTo(_, _)
RowsUpTo(S, k) ==
    IF k = 0 THEN { <<>> }
    ELSE LET shorter == RowsUpTo(S, k - 1)
         IN  shorter \cup
             { Append(tb, r) : tb \in { x \in shorter : Len(x) = k - 1 }, r \in S }

TablesOver(S) ==
    { tb \in RowsUpTo(S, Cardinality(S)) :
        \A i, k \in 1..Len(tb) : tb[i] = tb[k] => i = k }

\* The schedule files: the n-th row has the n-th id
RECURSIVE ScheduleFilesUpTo(_)
ScheduleFilesUpTo(k) ==
    IF k = 0 THEN { <<>> }
    ELSE LET shorter == ScheduleFilesUpTo(k - 1)
         IN  shorter \cup
             { Append(tb, Assignment_model_dump(
                              [id |-> AssignmentId(k), employeeId |-> e, jobId |-> j,
                               assignedAt |-> t, notes |-> n])) :
                 tb \in { x \in shorter : Len(x) = k - 1 },
                 e \in {"E1", "E2"}, j \in {"J1", "J2"},
                 t \in 0..MaxAssignedAt, n \in { <<>>, <<"note">> } }

\* _load_employees(): [Employee(**emp) for emp in data]
LoadEmployees(data) ==
    [i \in 1..Len(data) |->
        [id |-> data[i].id, name |-> data[i].name, role |-> data[i].role]]

\* _load_jobs(): the Job models of the rows of the job table
LoadJobs(data) ==
    [i \in 1..Len(data) |->
        [id |-> data[i].id, name |-> data[i].name,
         startTime |-> DatetimeFromIso(data[i].startTime),
         endTime |-> DatetimeFromIso(data[i].endTime)]]

\* next((x for x in rows if x.id == id), None): the first match, or none
FindById(rows, id) ==
    LET hits == { i \in 1..Len(rows) : rows[i].id = id }
    IN  IF hits = {} THEN <<>>
        ELSE << rows[CHOOSE i \in hits : \A k \in hits : i <= k] >>

\* an enrichment that never fills in the details
EnrichAssignment_NoDetail(assignment, emps, js) ==
    [id |-> assignment.id, employeeId |-> assignment.employeeId,
     jobId |-> assignment.jobId, assignedAt |-> assignment.assignedAt,
     notes |-> assignment.notes, employee |-> <<>>, job |-> <<>>]

\* AssignmentWithDetails(...) for one assignment
EnrichAssignment(assignment, emps, js) ==
    LET employee == FindById(emps, assignment.employeeId)
        job      == FindById(js, assignment.jobId)
    IN  [id |-> assignment.id, employeeId |-> assignment.employeeId,
         jobId |-> assignment.jobId, assignedAt |-> assignment.assignedAt,
         notes |-> assignment.notes,
         employee |-> IF employee # <<>>
                      THEN << [id |-> employee[1].id, name |-> employee[1].name,
                               role |-> employee[1].role] >>
                      ELSE <<>>,
         job |-> IF job # <<>>
                 THEN << [id |-> job[1].id, name |-> job[1].name,
                          startTime |-> job[1].startTime,
                          endTime |-> job[1].endTime] >>
                 ELSE <<>>]

\* list.sort(key=lambda a: a.assignedAt): stable, ascending
RECURSIVE SortByAssignedAt(_)
SortByAssignedAt(xs) ==
    IF xs = <<>> THEN <<>>
    ELSE LET rest == SortByAssignedAt(SubSeq(xs, 1, Len(xs) - 1))
             x    == xs[Len(xs)]
             k    == Cardinality({ i \in 1..Len(rest) : rest[i].assignedAt <= x.assignedAt })
         IN  SubSeq(rest, 1, k) \o <<x>> \o SubSeq(rest, k + 1, Len(rest))

\* list.sort(key=lambda a: a.assignedAt, reverse=True): stable, descending
RECURSIVE SortByAssignedAtReverse(_)
SortByAssignedAtReverse(xs) ==
    IF xs = <<>> THEN <<>>
    ELSE LET rest == SortByAssignedAtReverse(SubSeq(xs, 1, Len(xs) - 1))
             x    == xs[Len(xs)]
             k    == Cardinality({ i \in 1..Len(rest) : rest[i].assignedAt >= x.assignedAt })
         IN  SubSeq(rest, 1, k) \o <<x>> \o SubSeq(rest, k + 1, Len(rest))

\* an enrichment that returns the oldest assignment first
ScheduleService_get_enriched_assignments_Ascending(schedule, employeeTable, jobTable) ==
    LET asg  == LoadAssignments(schedule)
        emps == LoadEmployees(employeeTable)
        js   == LoadJobs(jobTable)
    IN  SortByAssignedAt([i \in 1..Len(asg) |-> EnrichAssignment(asg[i], emps, js)])

\* ScheduleService.get_enriched_assignments()
ScheduleService_get_enriched_assignments(schedule, employeeTable, jobTable) ==
    LET asg  == LoadAssignments(schedule)
        emps == LoadEmployees(employeeTable)
        js   == LoadJobs(jobTable)
    IN  SortByAssignedAtReverse(
            [i \in 1..Len(asg) |-> EnrichAssignment(asg[i], emps, js)])

GetEnrichedAssignments ==
    /\ ~en.done
    /\ en' = [en EXCEPT !.done = TRUE,
                        !.out = ScheduleService_get_enriched_assignments(
                                    en.schedule, en.employees, en.jobs)]

InitEnrich ==
    /\ InitTables /\ InitThreadsIdle /\ InitLocksIdle /\ InitOverlapIdle
    /\ disk = <<>> /\ io = <<>> /\ table = <<>> /\ rq = <<>>
    /\ mv = <<>> /\ jq = <<>>
    /\ \E sc \in ScheduleFilesUpTo(MaxAssignments),
          em \in TablesOver(EmployeeRows), jb \in TablesOver(JobRows) :
           en = [schedule |-> sc, employees |-> em, jobs |-> jb,
                 done |-> FALSE, out |-> <<>>]

enrichFrame == <<seqVars, concVars, lockVars, ov, disk, io, table, rq, mv, jq>>

NextEnrich == GetEnrichedAssignments /\ UNCHANGED enrichFrame

SpecEnrich == InitEnrich /\ [][NextEnrich]_vars

\* The entries returned for the stored assignment with this id
EntriesFor(id) == { i \in 1..Len(en.out) : en.out[i].id = id }

\* C27: get_enriched_assignments returns exactly one entry per stored
\* assignment, ordered by assignedAt descending, and modifies no table.
C27_OneEntryEachNewestFirst ==
    [][ (~en.done /\ en'.done)
          => /\ en'.schedule = en.schedule
             /\ en'.employees = en.employees
             /\ en'.jobs = en.jobs
             /\ Len(en'.out) = Len(en.schedule)
             /\ \A n \in 1..Len(en.schedule) :
                    \E i \in 1..Len(en'.out) :
                        /\ en'.out[i].id = en.schedule[n].id
                        /\ en'.out[i].employeeId = en.schedule[n].employeeId
                        /\ en'.out[i].jobId = en.schedule[n].jobId
                        /\ IsoFormat(en'.out[i].assignedAt) = en.schedule[n].assignedAt
                        /\ en'.out[i].notes = en.schedule[n].notes
                        /\ \A k \in 1..Len(en'.out) :
                               en'.out[k].id = en.schedule[n].id => k = i
             /\ \A i, k \in 1..Len(en'.out) :
                    i < k => en'.out[i].assignedAt >= en'.out[k].assignedAt ]_vars

\* Two assignments stored the older one first came back the newer one first
C27_Witness ==
    /\ en.done
    /\ Len(en.schedule) = 2 /\ Len(en.out) = 2
    /\ DatetimeFromIso(en.schedule[1].assignedAt) < DatetimeFromIso(en.schedule[2].assignedAt)
    /\ en.out[1].id = en.schedule[2].id
    /\ en.out[2].id = en.schedule[1].id

HasRow(rows, id) == \E i \in 1..Len(rows) : rows[i].id = id

\* C28: an assignment whose employeeId or jobId matches no record is still
\* returned, with the employee or job detail absent, and the call does not
\* fail; when the referenced record exists the detail carries its id.
C28_DanglingReferencesAbsent ==
    en.done =>
        \A n \in 1..Len(en.schedule) :
            \E i \in 1..Len(en.out) :
                /\ en.out[i].id = en.schedule[n].id
                /\ IF HasRow(en.employees, en.schedule[n].employeeId)
                   THEN /\ en.out[i].employee # <<>>
                        /\ en.out[i].employee[1].id = en.schedule[n].employeeId
                   ELSE en.out[i].employee = <<>>
                /\ IF HasRow(en.jobs, en.schedule[n].jobId)
                   THEN /\ en.out[i].job # <<>>
                        /\ en.out[i].job[1].id = en.schedule[n].jobId
                   ELSE en.out[i].job = <<>>

\* One returned entry lacks the employee detail and has the job detail,
\* another has the employee detail and lacks the job detail
C28_Witness ==
    /\ en.done
    /\ \E i, k \in 1..Len(en.out) :
           /\ en.out[i].employee = <<>> /\ en.out[i].job # <<>>
           /\ en.out[k].employee # <<>> /\ en.out[k].job = <<>>
           /\ en.out[k].employee[1].id = en.out[k].employeeId

-----------------------------------------------------------------------------
(* schedule_service._times_overlap on HH:MM wall-clock strings.  A string    *)
(* "HH:MM" is the pair of its two fields.                                    *)

MinutesPerHour == 60
MinutesPerDay  == 24 * 60

ClockHours   == {0, 8, 16, 22}
ClockMinutes == {0, 30}

\* The strings "HH:MM"
ClockStrings == ClockHours \X ClockMinutes

\* _parse_time(time_str): (int(parts[0]), int(parts[1]))
ParseTime(time_str) == [hours |-> time_str[1], minutes |-> time_str[2]]

\* _time_to_minutes(time_str)
TimeToMinutes(time_str) ==
    ParseTime(time_str).hours * MinutesPerHour + ParseTime(time_str).minutes

\* an overlap test that compares the minutes of the day as they are
ScheduleService_times_overlap_SameDay(start1, end1, start2, end2) ==
    TimeToMinutes(start1) < TimeToMinutes(end2)
        /\ TimeToMinutes(start2) < TimeToMinutes(end1)

\* _times_overlap(start1, end1, start2, end2)
ScheduleService_times_overlap(start1, end1, start2, end2) ==
    LET start1_min == TimeToMinutes(start1)
        start2_min == TimeToMinutes(start2)
        end1_min   == IF TimeToMinutes(end1) < start1_min
                      THEN TimeToMinutes(end1) + MinutesPerDay
                      ELSE TimeToMinutes(end1)
        end2_min   == IF TimeToMinutes(end2) < start2_min
                      THEN TimeToMinutes(end2) + MinutesPerDay
                      ELSE TimeToMinutes(end2)
    IN  start1_min < end2_min /\ start2_min < end1_min

TimesOverlap ==
    /\ ~ov.done
    /\ ov' = [ov EXCEPT !.done = TRUE,
                        !.overlap = ScheduleService_times_overlap(
                                        ov.start1, ov.end1, ov.start2, ov.end2)]

InitClock ==
    /\ InitTables /\ InitThreadsIdle /\ InitLocksIdle /\ InitStoreIdle
    /\ \E s1, e1, s2, e2 \in ClockStrings :
           ov = [start1 |-> s1, end1 |-> e1, start2 |-> s2, end2 |-> e2,
                 done |-> FALSE, overlap |-> FALSE]

clockFrame == <<seqVars, concVars, lockVars, storeVars>>

NextClock == TimesOverlap /\ UNCHANGED clockFrame

SpecClock == InitClock /\ [][NextClock]_vars

\* Minutes since midnight of the four strings of the call
Minutes(time_str) == time_str[1] * 60 + time_str[2]

Overnight1 == Minutes(ov.end1) < Minutes(ov.start1)

Overnight2 == Minutes(ov.end2) < Minutes(ov.start2)

NormalizedEnd1 == IF Overnight1 THEN Minutes(ov.end1) + 1440 ELSE Minutes(ov.end1)

NormalizedEnd2 == IF Overnight2 THEN Minutes(ov.end2) + 1440 ELSE Minutes(ov.end2)

OnNormalized ==
    Minutes(ov.start1) < NormalizedEnd2 /\ Minutes(ov.start2) < NormalizedEnd1

\* One window ends at the wall-clock time at which the other begins
Touching == ov.end1 = ov.start2 \/ ov.end2 = ov.start1

\* C31: _times_overlap converts each HH:MM time to minutes since midnight,
\* adds 24*60 to every end that is smaller than its start, and returns
\* start1 < end2 and start2 < end1 on the normalized values; two windows of
\* which one ends exactly when the other begins are reported as not
\* overlapping.
C31_TouchingNeverOverlaps ==
    ov.done => /\ ov.overlap = OnNormalized
               /\ Touching => ~ov.overlap

\* C31, amended: the result is start1 < end2 and start2 < end1 on the
\* normalized values; two windows of which one ends exactly when the other
\* begins are reported as not overlapping when neither is an overnight window.
C31_TouchingSameDayNeverOverlaps ==
    ov.done => /\ ov.overlap = OnNormalized
               /\ (Touching /\ ~Overnight1 /\ ~Overnight2) => ~ov.overlap

\* An overnight window and a same-day window that share the early evening
\* were reported as overlapping
C31_Witness ==
    /\ ov.done /\ ov.overlap
    /\ Overnight1 /\ ~Overnight2
    /\ Minutes(ov.start1) < Minutes(ov.end2)

\* Two same-day windows, the second beginning when the first ends, were
\* reported as not overlapping
C31_WitnessTouching ==
    /\ ov.done /\ ~ov.overlap
    /\ ~Overnight1 /\ ~Overnight2
    /\ Minutes(ov.start1) < Minutes(ov.end1)
    /\ ov.end1 = ov.start2
    /\ Minutes(ov.start2) < Minutes(ov.end2)

-----------------------------------------------------------------------------
(* create_assignment calls and JobRepository.update calls, one at a time *)

\* The windows a job is updated to
UpdateWindows == { <<0, 8>>, <<0, 10>>, <<8, 16>> }

\* JobRepository.update(job) with a new time window
UpdateJob(j, w) ==
    /\ jobs' = JobRepository_update(jobs, [id |-> j, startTime |-> w[1], endTime |-> w[2]])
    /\ last' = Call("job_update", "", j, <<>>,
                    IF JobRepository_get_by_id(jobs, j) = <<>> THEN "None" ELSE "Ok")
    /\ scenario' = -1
    /\ UNCHANGED <<employees, assignments, nextId, clock>>

JobUpdate == \E j \in JobIds, w \in UpdateWindows : UpdateJob(j, w)

NextJobUpdate ==
    \/ Create    /\ UNCHANGED <<concVars, lockVars, ov, storeVars>>
    \/ JobUpdate /\ UNCHANGED <<concVars, lockVars, ov, storeVars>>

SpecJobUpdate == Init /\ [][NextJobUpdate]_vars

\* No employee holds two of the assignments asg whose windows in jbs overlap
NoOverlapIn(jbs, asg) ==
    \A a, b \in 1..Len(asg) :
        (a < b /\ asg[a].employeeId = asg[b].employeeId)
            => ~WindowsOverlap(jbs, asg[a].jobId, asg[b].jobId)

\* C32: the per-employee no-overlap invariant holds after every successful
\* write of any repository, a JobRepository.update that changes the window of
\* a job with assignments included: when it held before the update it holds
\* after it.
C32_JobUpdateKeepsNoOverlap ==
    (last.op = "job_update" /\ last.result = "Ok"
       /\ NoOverlapIn(last.pre[2], last.pre[3]))
        => NoOverlapIn(jobs, assignments)

-----------------------------------------------------------------------------
(* create_assignment and delete_assignment calls on two worker threads, one  *)
(* step per read_json_file / write_json_file call.  The Assignment table     *)
(* holds one assignment, made by an earlier create_assignment(E1, J3).       *)

StoredFirst == NewAssignment(0, "E1", "J3", 0)

\* The ids handed to delete_assignment: the stored one, the next one made,
\* one never made
DeleteIds == { AssignmentId(0), AssignmentId(1), AssignmentId(MaxCreates + 1) }

IdleWorker == [assignmentId |-> <<>>, removed |-> FALSE] @@ IdleThread

\* delete_assignment(assignment_id) is called
StartDelete(t, id) ==
    /\ threads[t].pc = "idle"
    /\ threads' = [threads EXCEPT ![t].pc = "delete_lookup", ![t].assignmentId = id]
    /\ UNCHANGED <<assignments, nextId>>

\* assignment = self.assignment_repo.get_by_id(assignment_id); if not assignment: return error
DeleteLookup(t) ==
    LET assignment == AssignmentRepository_get_by_id(assignments, threads[t].assignmentId)
    IN  /\ threads[t].pc = "delete_lookup"
        /\ threads' = [threads EXCEPT
                ![t].existing = assignment,
                ![t].pc = IF assignment = <<>> THEN "done" ELSE "delete_read",
                ![t].result = IF assignment = <<>> THEN "AssignmentNotFound" ELSE ""]
        /\ UNCHANGED <<assignments, nextId>>

\* AssignmentRepository.delete: assignments = self.get_all()
DeleteRead(t) ==
    /\ threads[t].pc = "delete_read"
    /\ threads' = [threads EXCEPT ![t].list = assignments, ![t].pc = "delete_write"]
    /\ UNCHANGED <<assignments, nextId>>

\* AssignmentRepository.delete: filter, save_all if a record went; the service
\* ignores what delete returns and returns (True, None)
DeleteWrite(t) ==
    LET kept == AssignmentRepository_delete(threads[t].list, threads[t].assignmentId)
    IN  /\ threads[t].pc = "delete_write"
        /\ assignments' = IF Len(kept) < Len(threads[t].list) THEN kept ELSE assignments
        /\ threads' = [threads EXCEPT
                ![t].removed = Len(kept) < Len(threads[t].list),
                ![t].pc = "done", ![t].result = "Ok"]
        /\ UNCHANGED nextId

InitWorkers ==
    /\ employees = SeedEmployees
    /\ jobs = SeedJobs
    /\ assignments = <<StoredFirst>>
    /\ nextId = 1
    /\ clock = 0
    /\ last = NoCall
    /\ scenario = 0
    /\ InitLocksIdle /\ InitOverlapIdle /\ InitStoreIdle
    /\ threads = [t \in ThreadIds |-> IdleWorker]

WorkerStartDelete == \E t \in ThreadIds, id \in DeleteIds : StartDelete(t, id)

WorkerDeleteLookup == \E t \in ThreadIds : DeleteLookup(t)

WorkerDeleteRead == \E t \in ThreadIds : DeleteRead(t)

WorkerDeleteWrite == \E t \in ThreadIds : DeleteWrite(t)

NextWorkers ==
    \/ NextConc
    \/ WorkerStartDelete  /\ UNCHANGED concFrame
    \/ WorkerDeleteLookup /\ UNCHANGED concFrame
    \/ WorkerDeleteRead   /\ UNCHANGED concFrame
    \/ WorkerDeleteWrite  /\ UNCHANGED concFrame

SpecWorkers == InitWorkers /\ [][NextWorkers]_vars

InTable(id) == \E i \in 1..Len(assignments) : assignments[i].id = id

DeleteReturnedOk(t) ==
    /\ threads[t].assignmentId # <<>>
    /\ threads[t].pc = "done" /\ threads[t].result = "Ok"

CreateReturnedOk(t) ==
    /\ threads[t].assignmentId = <<>>
    /\ threads[t].pc = "done" /\ threads[t].result = "Ok"

\* A delete_assignment for this id has run its repository delete
DeleteExecuted(id) ==
    \E t \in ThreadIds : threads[t].assignmentId = id /\ threads[t].pc = "done"
                           /\ threads[t].result = "Ok"

\* C33: under any interleaving of concurrent create_assignment and
\* delete_assignment calls, an assignment whose delete_assignment returned
\* success is never in the Assignment table afterwards, and an assignment
\* whose create_assignment returned success stays in the table until a
\* delete_assignment for its own id is executed.
C33_DeletedStaysDeletedCreatedStays ==
    /\ \A t \in ThreadIds :
           DeleteReturnedOk(t) => ~InTable(threads[t].assignmentId)
    /\ \A t \in ThreadIds :
           (CreateReturnedOk(t) /\ ~DeleteExecuted(threads[t].new[1].id))
               => InTable(threads[t].new[1].id)
    /\ ~DeleteExecuted(StoredFirst.id) => InTable(StoredFirst.id)

\* C33, first half alone: a deleted assignment is not written back
C33_DeletedNotWrittenBack ==
    \A t \in ThreadIds : DeleteReturnedOk(t) => ~InTable(threads[t].assignmentId)

\* C33, second half alone: a created assignment is not removed by another call
C33_CreatedNotRemoved ==
    \A t \in ThreadIds :
        (CreateReturnedOk(t) /\ ~DeleteExecuted(threads[t].new[1].id))
            => InTable(threads[t].new[1].id)

\* C34: when two delete_assignment calls for the same existing assignment id
\* run concurrently, exactly one returns success and the other returns
\* AssignmentNotFound; delete_assignment returns success only if its own
\* repository delete removed a record.
C34_OneDeleteSucceeds ==
    /\ (\A t \in ThreadIds : /\ threads[t].assignmentId = StoredFirst.id
                             /\ threads[t].pc = "done")
           => \E t \in ThreadIds :
                  /\ threads[t].result = "Ok"
                  /\ \A u \in ThreadIds \ {t} : threads[u].result = "AssignmentNotFound"
    /\ \A t \in ThreadIds : DeleteReturnedOk(t) => threads[t].removed

-----------------------------------------------------------------------------
(* The module-level schedule_service.create_assignment next to               *)
(* AssignmentService.create_assignment, on the same tables                   *)

\* _times_overlap(job.startTime, ...) with the datetime fields of two Jobs:
\* _parse_time calls time_str.split(':'), which a datetime does not have
ScheduleService_times_overlap_of_datetimes(start1, end1, start2, end2) ==
    [raised |-> "AttributeError", value |-> FALSE]

\* validate_assignment: the loop over the employee's assignments
RECURSIVE ValidateEach(_, _, _, _)
ValidateEach(jbs, job, employee_assignments, job_id) ==
    IF employee_assignments = <<>> THEN "Ok"
    ELSE LET assignment   == Head(employee_assignments)
             existing_job == FirstWithId(jbs, assignment.jobId)
             overlap      == ScheduleService_times_overlap_of_datetimes(
                                 job[1].startTime, job[1].endTime,
                                 existing_job[1].startTime, existing_job[1].endTime)
         IN  IF existing_job = <<>>
             THEN ValidateEach(jbs, job, Tail(employee_assignments), job_id)
             ELSE IF assignment.jobId = job_id THEN "DoubleBooking"
             ELSE IF overlap.raised # "" THEN overlap.raised
             ELSE IF overlap.value THEN "TimeOverlap"
             ELSE ValidateEach(jbs, job, Tail(employee_assignments), job_id)

\* schedule_service.validate_assignment(employee_id, job_id): the exception
\* raised, or "Ok"
ScheduleService_validate_assignment(emps, jbs, asg, employee_id, job_id) ==
    LET employee == FirstWithId(emps, employee_id)
        job      == FirstWithId(jbs, job_id)
    IN  IF employee = <<>> THEN "EmployeeNotFound"
        ELSE IF job = <<>> THEN "JobNotFound"
        ELSE IF ~employee[1].availability THEN "EmployeeUnavailable"
        ELSE ValidateEach(jbs, job,
                          SelectSeq(asg, LAMBDA a : a.employeeId = employee_id),
                          job_id)

\* schedule_service.create_assignment(employee_id, job_id)
ModuleCreateAssignment(e, j) ==
    LET error == ScheduleService_validate_assignment(employees, jobs, assignments, e, j)
    IN  /\ error = "Ok" => nextId < MaxCreates
        /\ assignments' = IF error = "Ok"
                          THEN Append(assignments, NewAssignment(nextId, e, j, clock))
                          ELSE assignments
        /\ nextId' = IF error = "Ok" THEN nextId + 1 ELSE nextId
        /\ last' = Call("schedule_service.create_assignment", e, j,
                        IF error = "Ok" THEN AssignmentId(nextId) ELSE <<>>, error)
        /\ scenario' = -1
        /\ UNCHANGED <<employees, jobs, clock>>

ModuleCreate == \E e \in EmployeeIds, j \in JobIds : ModuleCreateAssignment(e, j)

NextTwoServices ==
    \/ Create       /\ UNCHANGED <<concVars, lockVars, ov, storeVars>>
    \/ ModuleCreate /\ UNCHANGED <<concVars, lockVars, ov, storeVars>>

SpecTwoServices == Init /\ [][NextTwoServices]_vars

\* The error kind of a decision: the two not-found errors are one kind
ErrorKind(result) ==
    IF result \in {"EmployeeNotFound", "JobNotFound"} THEN "NotFound" ELSE result

Pairs(asg) == { <<asg[i].employeeId, asg[i].jobId>> : i \in 1..Len(asg) }

\* What AssignmentService.create_assignment decides on the tables the last
\* call started from
ServiceDecision ==
    ValidateAgainst(PreEmployees, PreJobs, PreAssignments, last.employeeId, last.jobId)

\* C35: from the same Employee, Job and Assignment tables,
\* AssignmentService.create_assignment and schedule_service.create_assignment
\* make the same decision for every (employeeId, jobId): both succeed or both
\* reject with the same error kind, and both leave the Assignment table with
\* the same set of (employeeId, jobId) pairs.
C35_SameDecision ==
    last.op = "schedule_service.create_assignment"
        => /\ ErrorKind(last.result) = ErrorKind(ServiceDecision)
           /\ Pairs(assignments) =
                  Pairs(PersistIfValid(ServiceDecision, PreAssignments,
                                       NewAssignment(nextId, last.employeeId,
                                                     last.jobId, clock)))

\* C35 on tables where the employee holds no assignment yet
C35_SameDecisionFirstAssignment ==
    (last.op = "schedule_service.create_assignment"
       /\ AssignmentRepository_get_by_employee_id(PreAssignments, last.employeeId) = <<>>)
        => ErrorKind(last.result) = ErrorKind(ServiceDecision)

-----------------------------------------------------------------------------
(* An entity is constructed, stored by its repository's create into an empty *)
(* table and read back by get_all and get_by_id, which build every stored    *)
(* row again through the model's constructor.                                *)

MinIdLength == 1

\* Assignment.employeeId / jobId: Field(min_length=1), then validate_ids
Assignment_id_errors(v, field) ==
    IF StrLen(v) < MinIdLength THEN {field}
    ELSE IF Strip(v) = <<>> THEN {field}
    ELSE {}

\* What a constructor call gives: the errors raised and, when there are none,
\* the fields of the model built
Build(kind, a) ==
    IF kind = "Job"
    THEN LET m == Job(a.name, a.startTime, a.endTime)
         IN  [errors |-> m.errors,
              entity |-> IF m.errors = {}
                         THEN [id |-> a.id, name |-> m.name,
                               startTime |-> a.startTime[1], endTime |-> a.endTime[1]]
                         ELSE <<>>]
    ELSE IF kind = "Employee"
    THEN LET m == Employee(a.name, a.role)
         IN  [errors |-> m.errors,
              entity |-> IF m.errors = {}
                         THEN [id |-> a.id, name |-> m.name, role |-> a.role]
                         ELSE <<>>]
    ELSE LET errors == Assignment_id_errors(a.employeeId, "employeeId")
                         \cup Assignment_id_errors(a.jobId, "jobId")
         IN  [errors |-> errors,
              entity |-> IF errors = {}
                         THEN [id |-> a.id, employeeId |-> Strip(a.employeeId),
                               jobId |-> Strip(a.jobId), assignedAt |-> a.assignedAt]
                         ELSE <<>>]

\* entity.model_dump(mode="json")
ModelDump(kind, e) ==
    IF kind = "Job"
    THEN [id |-> e.id, name |-> e.name,
          startTime |-> IsoFormat(e.startTime), endTime |-> IsoFormat(e.endTime)]
    ELSE IF kind = "Employee" THEN e
    ELSE [id |-> e.id, employeeId |-> e.employeeId, jobId |-> e.jobId,
          assignedAt |-> IsoFormat(e.assignedAt)]

\* Model(**row): the constructor arguments a stored row gives
FromRow(kind, row) ==
    IF kind = "Job"
    THEN [id |-> row.id, name |-> row.name,
          startTime |-> <<DatetimeFromIso(row.startTime)>>,
          endTime |-> <<DatetimeFromIso(row.endTime)>>]
    ELSE IF kind = "Employee" THEN row
    ELSE [id |-> row.id, employeeId |-> row.employeeId, jobId |-> row.jobId,
          assignedAt |-> DatetimeFromIso(row.assignedAt)]

\* get_all: [Model(**row) for row in data]
Repository_get_all(kind, rows) ==
    IF \E i \in 1..Len(rows) : Build(kind, FromRow(kind, rows[i])).errors # {}
    THEN [raised |-> "ValidationError", entities |-> <<>>]
    ELSE [raised |-> "",
          entities |-> [i \in 1..Len(rows) |-> Build(kind, FromRow(kind, rows[i])).entity]]

\* The names tried: at, below and above the minimum lengths, padded or not
StoredNames ==
    { nm \in EmployeeNames : StrLen(nm) <= 4 }

ReadBackArguments ==
    [kind : {"Job"}, id : {"ID0"}, name : StoredNames \cap JobNames,
     startTime : { <<0>> }, endTime : { <<HalfHour>>, <<FullDay>> }]
    \cup [kind : {"Employee"}, id : {"ID0"}, name : StoredNames, role : Roles]
    \cup [kind : {"Assignment"}, id : {"ID0"}, employeeId : StoredNames \cap JobNames,
          jobId : StoredNames \cap JobNames, assignedAt : {0}]

\* Model(...)
ConstructEntity ==
    /\ mv.pc = "new"
    /\ LET b == Build(mv.kind, mv.args)
       IN  mv' = [mv EXCEPT !.pc = IF b.errors = {} THEN "built" ELSE "rejected",
                            !.entity = b.entity]

\* repository.create(entity): get_all, append, save_all
StoreEntity ==
    /\ mv.pc = "built"
    /\ LET before == Repository_get_all(mv.kind, mv.file)
       IN  mv' = [mv EXCEPT
                    !.pc = IF before.raised = "" THEN "stored" ELSE "raised",
                    !.file = IF before.raised = ""
                             THEN [i \in 1..(Len(before.entities) + 1) |->
                                      ModelDump(mv.kind,
                                                Append(before.entities, mv.entity)[i])]
                             ELSE mv.file]

\* repository.get_all() and repository.get_by_id(entity.id)
ReadBack ==
    /\ mv.pc = "stored"
    /\ LET all == Repository_get_all(mv.kind, mv.file)
       IN  mv' = [mv EXCEPT
                    !.pc = "read",
                    !.all = all,
                    !.got = IF all.raised = "" THEN FirstWithId(all.entities, mv.entity.id)
                            ELSE <<>>]

InitReadBack ==
    /\ InitTables /\ InitThreadsIdle /\ InitLocksIdle /\ InitOverlapIdle
    /\ disk = <<>> /\ io = <<>> /\ table = <<>> /\ rq = <<>>
    /\ jq = <<>> /\ en = <<>>
    /\ \E a \in ReadBackArguments :
           mv = [kind |-> a.kind, args |-> a, pc |-> "new", entity |-> <<>>,
                 file |-> <<>>, all |-> [raised |-> "", entities |-> <<>>],
                 got |-> <<>>]

NextReadBack ==
    \/ ConstructEntity /\ UNCHANGED modelsFrame
    \/ StoreEntity     /\ UNCHANGED modelsFrame
    \/ ReadBack        /\ UNCHANGED modelsFrame

SpecReadBack == InitReadBack /\ [][NextReadBack]_vars

\* C36: every entity that construction accepts and a repository create stores
\* can be read back: after create(entity), get_all on that table succeeds and
\* get_by_id(entity.id) returns an entity with equal fields, for Employee, Job
\* and Assignment.
C36_StoredEntityReadsBack ==
    mv.pc = "read" => /\ mv.all.raised = ""
                      /\ mv.got = <<mv.entity>>

\* C36 for Assignment alone
C36_StoredAssignmentReadsBack ==
    (mv.pc = "read" /\ mv.kind = "Assignment")
        => /\ mv.all.raised = ""
           /\ mv.got = <<mv.entity>>

-----------------------------------------------------------------------------
(* create_assignment and delete_assignment calls one at a time, with the     *)
(* call before the last one remembered in rq                                 *)

freeSlotFrame == <<concVars, lockVars, ov, disk, io, table, queryVars>>

NextFreeSlot ==
    \/ Create /\ rq' = last /\ UNCHANGED freeSlotFrame
    \/ Delete /\ rq' = last /\ UNCHANGED freeSlotFrame

SpecFreeSlot == Init /\ [][NextFreeSlot]_vars

NoDuplicateIn(asg) ==
    \A a, b \in 1..Len(asg) :
        (a < b /\ asg[a].employeeId = asg[b].employeeId) => asg[a].jobId # asg[b].jobId

\* Job j1 is job j2 or its window overlaps the window of j2
Conflicts(jbs, j1, j2) == j1 = j2 \/ WindowsOverlap(jbs, j1, j2)

\* The call before the last one was a successful delete_assignment
DeletedBefore == rq.op = "delete_assignment" /\ rq.result = "Ok"

\* The assignment that delete_assignment was asked to remove
Deleted == FirstWithId(rq.pre[3], rq.id)[1]

\* The assignments that are left when Deleted is removed
Remaining == SelectSeq(rq.pre[3], LAMBDA a : a.id # rq.id)

\* The last call is a create_assignment(e, J') made right after the delete of
\* an assignment of e, for an existing job J' that conflicted with the deleted
\* assignment and with no other assignment of e, e being available
SlotFreed ==
    /\ last.op = "create_assignment"
    /\ DeletedBefore
    /\ Deleted.employeeId = last.employeeId
    /\ PreEmployee # <<>> /\ PreEmployee[1].availability
    /\ PreJob # <<>>
    /\ Conflicts(PreJobs, last.jobId, Deleted.jobId)
    /\ \A i \in 1..Len(Remaining) :
           Remaining[i].employeeId = last.employeeId
               => ~Conflicts(PreJobs, last.jobId, Remaining[i].jobId)

\* C37: deleting an assignment never creates a conflict and frees its slot:
\* when the no-overlap and no-duplicate invariants hold before a successful
\* delete_assignment they hold after it, and a create_assignment(e, J') made
\* after it, for a job J' that conflicted only with the deleted assignment,
\* succeeds provided e is available and J' exists.
C37_DeleteFreesSlot ==
    /\ (last.op = "delete_assignment" /\ last.result = "Ok"
          /\ NoOverlapIn(PreJobs, PreAssignments) /\ NoDuplicateIn(PreAssignments))
           => (NoOverlapIn(jobs, assignments) /\ NoDuplicateIn(assignments))
    /\ SlotFreed => last.result = "Ok"

\* An assignment was deleted and the same employee was then assigned to a job
\* overlapping the deleted assignment's job
C37_Witness ==
    /\ SlotFreed
    /\ last.jobId # Deleted.jobId
    /\ last.result = "Ok"
    /\ \E i \in 1..Len(assignments) : assignments[i].id = last.id

====
